---- MODULE Spec2Model ----
(***************************************************************************)
(* State-machine model of the graph visualization page (VisualizationPage) *)
(* of graphiti-ui: snapshot loading, the selection / highlight state, and  *)
(* the episode cache, and the life cycle of the force simulation that the  *)
(* layout effect creates (settle, auto-fit, drag, theme, unmount).         *)
(*                                                                         *)
(* React semantics assumed: every event handler and every promise          *)
(* continuation runs to completion, its state updates are batched, and the *)
(* re-render and the effects it schedules are finished before the next     *)
(* event is handled.  The state captured by the closures of a handler is   *)
(* therefore the state at the start of the event, and stays fixed for the  *)
(* whole handler invocation.                                               *)
(*                                                                         *)
(* d3 semantics assumed: d3.forceSimulation starts its timer when it is    *)
(* created; the timer runs until alpha falls below alphaMin, which it does *)
(* only while alphaTarget is 0, and then the 'end' event is dispatched;    *)
(* stop() ends the timer without an event; restart() starts it again.      *)
(* After the forces of a tick a node with fx / fy set is put at (fx, fy).  *)
(* Node positions are abstract points and the value of alpha is not part   *)
(* of the state.  d3-drag runs one gesture per pointer: the mouse has one  *)
(* gesture at a time, every touch point has its own, and event.active is   *)
(* the number of other gestures of the same drag behavior in progress.     *)
(* The path geometry is computed on exact fractions, with a denominator of *)
(* 0 standing for the non-finite numbers (NaN, Infinity).                  *)
(* The highlight effect is modelled by the attributes it sets on the       *)
(* elements the layout effect has created.                                 *)
(***************************************************************************)
EXTENDS Integers, Sequences, FiniteSets, TLC

(* ---------------------------------------------------------------------- *)
(* Bounds                                                                 *)
(* ---------------------------------------------------------------------- *)

\* at most this many fetches of one episode id are in flight together
MaxInFlight == 2

\* at most this many snapshot fetches are in flight together
MaxPending == 2

\* at most this many edges join one pair of nodes
MaxLinkCount == 4

\* at most this many drag gestures (pointers) are active together
MaxGestures == 2

(* ---------------------------------------------------------------------- *)
(* Nullable values: null is <<>>, a value x is <<x>>                      *)
(* ---------------------------------------------------------------------- *)

None == <<>>

Some(x) == <<x>>

Val(o) == o[1]

SeqToSet(s) == {s[i] : i \in DOMAIN s}

(* ---------------------------------------------------------------------- *)
(* Inputs: what the backend may answer, what the selectors offer          *)
(* ---------------------------------------------------------------------- *)

EpisodeIds == {"e1", "e2"}

\* subset of the <option> values of the limit selector
LimitOptions == {250, 500}

SnapshotIds == {1, 2}

\* the A,B,C scenario: a multi-edge A->B, A->B and B->C with episodes e1, e2;
\* the second A->B edge lists the same episode id twice
SnapshotABC ==
    [nodes |-> << [id |-> "A", type |-> "Person", group_id |-> "g1"],
                  [id |-> "B", type |-> "Person", group_id |-> "g1"],
                  [id |-> "C", type |-> "Place",  group_id |-> "g1"] >>,
     edges |-> << [source |-> "A", target |-> "B", episodes |-> <<>>],
                  [source |-> "A", target |-> "B", episodes |-> <<"e1", "e1">>],
                  [source |-> "B", target |-> "C", episodes |-> <<"e1", "e2">>] >>]

\* the same node ids with another edge order, a self-loop, an isolated node,
\* a node without type and no group ids
SnapshotLoop ==
    [nodes |-> << [id |-> "A", type |-> "Person", group_id |-> ""],
                  [id |-> "B", type |-> "",       group_id |-> ""],
                  [id |-> "C", type |-> "Place",  group_id |-> ""],
                  [id |-> "D", type |-> "Place",  group_id |-> ""] >>,
     edges |-> << [source |-> "B", target |-> "C", episodes |-> <<"e2">>],
                  [source |-> "A", target |-> "B", episodes |-> <<>>],
                  [source |-> "C", target |-> "C", episodes |-> <<>>] >>]

\* node ids that contain the '-' of the pair key: the pairs (a, b-c) and
\* (a-b, c) are different pairs of nodes
SnapshotDash ==
    [nodes |-> << [id |-> "a",   type |-> "Person", group_id |-> "g1"],
                  [id |-> "b-c", type |-> "Person", group_id |-> "g1"],
                  [id |-> "a-b", type |-> "Person", group_id |-> "g1"],
                  [id |-> "c",   type |-> "Person", group_id |-> "g1"] >>,
     edges |-> << [source |-> "a",   target |-> "b-c", episodes |-> <<>>],
                  [source |-> "a-b", target |-> "c",   episodes |-> <<>>] >>]

\* the target of the second edge is not the id of a node of the snapshot
SnapshotDangling ==
    [nodes |-> << [id |-> "A", type |-> "Person", group_id |-> "g1"],
                  [id |-> "B", type |-> "Person", group_id |-> "g1"] >>,
     edges |-> << [source |-> "A", target |-> "B", episodes |-> <<>>],
                  [source |-> "A", target |-> "X", episodes |-> <<>>] >>]

\* nodes of two groups
SnapshotGroups ==
    [nodes |-> << [id |-> "A", type |-> "Person", group_id |-> "g1"],
                  [id |-> "B", type |-> "Place",  group_id |-> "g2"] >>,
     edges |-> << [source |-> "A", target |-> "B", episodes |-> <<>>] >>]

\* eighteen type labels, one of them in lower case, in no order, a
\* repeated label and a node without type; no edges
SnapshotManyTypes ==
    [nodes |-> << [id |-> "A", type |-> "Place", group_id |-> "g1"],
                  [id |-> "B", type |-> "Person", group_id |-> "g1"],
                  [id |-> "C", type |-> "Org", group_id |-> "g1"],
                  [id |-> "D", type |-> "Note", group_id |-> "g1"],
                  [id |-> "n5", type |-> "Movie", group_id |-> "g1"],
                  [id |-> "n6", type |-> "Lab", group_id |-> "g1"],
                  [id |-> "n7", type |-> "Key", group_id |-> "g1"],
                  [id |-> "n8", type |-> "Job", group_id |-> "g1"],
                  [id |-> "n9", type |-> "Idea", group_id |-> "g1"],
                  [id |-> "n10", type |-> "Hotel", group_id |-> "g1"],
                  [id |-> "n11", type |-> "Group", group_id |-> "g1"],
                  [id |-> "n12", type |-> "Food", group_id |-> "g1"],
                  [id |-> "n13", type |-> "Event", group_id |-> "g1"],
                  [id |-> "n14", type |-> "Device", group_id |-> "g1"],
                  [id |-> "n15", type |-> "City", group_id |-> "g1"],
                  [id |-> "n16", type |-> "Book", group_id |-> "g1"],
                  [id |-> "n17", type |-> "Agent", group_id |-> "g1"],
                  [id |-> "n18", type |-> "", group_id |-> "g1"],
                  [id |-> "n19", type |-> "Place", group_id |-> "g1"],
                  [id |-> "n20", type |-> "agent", group_id |-> "g1"] >>,
     edges |-> << >>]

\* the snapshots that exercise the working edge list (processedEdges,
\* d3.forceLink)
EdgeListSnapshotIds == {1, 3, 4}

\* response.data of GET /graph/data for each snapshot the backend may answer
SnapshotData(s) ==
    CASE s = 1 -> SnapshotABC
      [] s = 2 -> SnapshotLoop
      [] s = 3 -> SnapshotDash
      [] s = 4 -> SnapshotDangling
      [] s = 5 -> SnapshotGroups
      [] s = 6 -> SnapshotManyTypes

\* a snapshot fetch in flight.  limit and selectedGroup only form the URL of
\* the request and the backend may answer any snapshot to any request, so
\* the entry does not keep them.
GraphDataRequest == "GET /graph/data"

\* response.data.episode of GET /graph/episode/<id>
EpisodeData(id) == [uuid |-> id, content |-> "v1"]

\* the episodes the backend may answer for one id: the record may have
\* been rewritten between two requests
EpisodeResponses(id) == {[uuid |-> id, content |-> c] : c \in {"v1", "v2"}}

(* ---------------------------------------------------------------------- *)
(* Strings as UTF-16 code unit sequences (for sort() and join('-'))       *)
(* ---------------------------------------------------------------------- *)

IdChars(id) ==
    CASE id = "A" -> <<65>>
      [] id = "B" -> <<66>>
      [] id = "C" -> <<67>>
      [] id = "D" -> <<68>>
      [] id = "X" -> <<88>>
      [] id = "a" -> <<97>>
      [] id = "c" -> <<99>>
      [] id = "a-b" -> <<97, 45, 98>>
      [] id = "b-c" -> <<98, 45, 99>>

RECURSIVE LexLess(_, _)
\* a < b for strings, as Array.prototype.sort compares them
LexLess(a, b) ==
    IF b = <<>> THEN FALSE
    ELSE IF a = <<>> THEN TRUE
    ELSE IF Head(a) # Head(b) THEN Head(a) < Head(b)
    ELSE LexLess(Tail(a), Tail(b))

\* [sourceId, targetId].sort().join('-')
PairKey(sourceId, targetId) ==
    LET a == IdChars(sourceId)
        b == IdChars(targetId)
    IN  IF LexLess(b, a) THEN b \o <<45>> \o a ELSE a \o <<45>> \o b

(* ---------------------------------------------------------------------- *)
(* processedEdges: linkIndex, linkCount, originalIndex                    *)
(* ---------------------------------------------------------------------- *)

RECURSIVE LinkCountsAfter(_, _)
\* the linkCounts record after the map() callback has run on edges 1..n
LinkCountsAfter(edges, n) ==
    IF n = 0 THEN << >>
    ELSE LET prev == LinkCountsAfter(edges, n - 1)
             key  == PairKey(edges[n].source, edges[n].target)
             old  == IF key \in DOMAIN prev THEN prev[key] ELSE 0
         IN  [k \in DOMAIN prev \cup {key} |-> IF k = key THEN old + 1 ELSE prev[k]]

\* originalIndex counted from 1
OriginalIndexOf_OneBased(edges, i) == i

\* index (0-based) stored as originalIndex of the edge at position i (1-based)
OriginalIndexOf(edges, i) == i - 1

ProcessEdges(edges) ==
    [i \in DOMAIN edges |->
        LET key    == PairKey(edges[i].source, edges[i].target)
            before == LinkCountsAfter(edges, i - 1)
        IN  [source        |-> edges[i].source,
             target        |-> edges[i].target,
             episodes      |-> edges[i].episodes,
             linkIndex     |-> IF key \in DOMAIN before THEN before[key] ELSE 0,
             linkCount     |-> LinkCountsAfter(edges, Len(edges))[key],
             originalIndex |-> OriginalIndexOf(edges, i)]]

RECURSIVE UniqueSeq(_)
\* [...new Set(s)]: first occurrences, in order
UniqueSeq(s) ==
    IF s = <<>> THEN <<>>
    ELSE LET init == UniqueSeq(SubSeq(s, 1, Len(s) - 1))
             x    == s[Len(s)]
         IN  IF x \in SeqToSet(init) THEN init ELSE Append(init, x)

\* [...new Set(nodes.map(n => n.group_id).filter(Boolean))]
UniqueGroups(data) ==
    UniqueSeq(SelectSeq([i \in DOMAIN data.nodes |-> data.nodes[i].group_id],
                        LAMBDA g : g # ""))

(* ---------------------------------------------------------------------- *)
(* Type colors: nodeTypes, typeColors, getTypeColor                       *)
(* ---------------------------------------------------------------------- *)

colorPalette ==
    << "#206bc4", "#2fb344", "#f76707", "#d63939", "#ae3ec9",
       "#0ca678", "#4263eb", "#f59f00", "#74b816", "#fa5252",
       "#7950f2", "#15aabf", "#e64980", "#fab005", "#12b886" >>

defaultColor == "#667382"

\* the UTF-16 code units of the type labels of the snapshots
TypeChars(type) ==
    CASE type = "Place" -> <<80, 108, 97, 99, 101>>
      [] type = "Person" -> <<80, 101, 114, 115, 111, 110>>
      [] type = "Org" -> <<79, 114, 103>>
      [] type = "Note" -> <<78, 111, 116, 101>>
      [] type = "Movie" -> <<77, 111, 118, 105, 101>>
      [] type = "Lab" -> <<76, 97, 98>>
      [] type = "Key" -> <<75, 101, 121>>
      [] type = "Job" -> <<74, 111, 98>>
      [] type = "Idea" -> <<73, 100, 101, 97>>
      [] type = "Hotel" -> <<72, 111, 116, 101, 108>>
      [] type = "Group" -> <<71, 114, 111, 117, 112>>
      [] type = "Food" -> <<70, 111, 111, 100>>
      [] type = "Event" -> <<69, 118, 101, 110, 116>>
      [] type = "Device" -> <<68, 101, 118, 105, 99, 101>>
      [] type = "City" -> <<67, 105, 116, 121>>
      [] type = "Book" -> <<66, 111, 111, 107>>
      [] type = "Agent" -> <<65, 103, 101, 110, 116>>
      [] type = "" -> <<>>
      [] type = "agent" -> <<97, 103, 101, 110, 116>>

RECURSIVE SortByCodeUnits(_)
\* Array.prototype.sort() without a comparator, on strings: ascending by
\* UTF-16 code units
SortByCodeUnits(s) ==
    IF s = <<>> THEN <<>>
    ELSE LET rest == SortByCodeUnits(Tail(s))
             x    == Head(s)
             k    == Cardinality({i \in DOMAIN rest :
                                     LexLess(TypeChars(rest[i]), TypeChars(x))})
         IN  SubSeq(rest, 1, k) \o <<x>> \o SubSeq(rest, k + 1, Len(rest))

\* the labels left as they come, without sort()
ComputeNodeTypes_Unsorted(data) ==
    SelectSeq(UniqueSeq([i \in DOMAIN data.nodes |-> data.nodes[i].type]),
              LAMBDA type : type # "")

\* [...new Set(graphData.nodes.map(n => n.type))].filter(Boolean).sort()
ComputeNodeTypes(data) ==
    SortByCodeUnits(SelectSeq(UniqueSeq([i \in DOMAIN data.nodes |-> data.nodes[i].type]),
                              LAMBDA type : type # ""))

\* colors[type] = colorPalette[index % colorPalette.length], index from 0
ComputeTypeColors(types) ==
    [type \in SeqToSet(types) |->
        LET index == (CHOOSE i \in DOMAIN types : types[i] = type) - 1
        IN  colorPalette[(index % Len(colorPalette)) + 1]]

(* ---------------------------------------------------------------------- *)
(* State                                                                  *)
(* ---------------------------------------------------------------------- *)

VARIABLES
    graphData,          \* null or the id of the snapshot held (useState)
    isLoading,          \* snapshot loading indicator
    error,              \* null or the error message of the last load
    limit,              \* limit selector
    groups,             \* group list offered by the group selector
    selectedGroup,      \* group filter, "" for all groups
    pendingLoads,       \* snapshot fetches in flight, in request order
    processedEdgesRef,  \* processedEdgesRef.current
    selectedNode,       \* null or the id of the selected node
    selectedEdge,       \* null or the selected (processed) edge
    highlightedNodes,   \* set of node ids
    highlightedEdges,   \* set of edge indices
    loadedEpisodes,     \* episode id -> episode, for the loaded ids
    loadingEpisodes,    \* set of episode ids shown as loading
    expandedEpisode,    \* null or the id of the expanded episode
    episodeFetches,     \* per episode id: requests in flight, by kind
    latestPending,      \* the snapshot fetch issued last is still in flight
                        \* (it is then the last entry of pendingLoads)
    mounted,            \* the page is mounted
    theme,              \* theme of the ThemeContext
    simulation,         \* timer of the simulation of the last layout run
    orphanSimulations,  \* simulations of earlier layout runs still running
    alphaTarget,        \* alphaTarget of the simulation of the last layout run
    autoFitDoneRef,     \* autoFitDoneRef.current
    autoFitApplied,     \* history: the auto-fit transform has been applied
                        \* since the snapshot on display arrived
    gestures,           \* the active drag gestures, in the order of their start
    pinned,             \* node id -> the point (d.fx, d.fy), for the pinned nodes
    position,           \* node id -> the point (d.x, d.y) of the node
    isDeleting,         \* a delete request is in flight (useState)
    deleteRequest,      \* null or the closure of the handleDeleteGraph
                        \* invocation that awaits its response
    alertMessage,       \* null or the text of the alert() shown last
    uncaughtError,      \* history: an exception has left handleDeleteGraph
    edgeDatum,          \* null or the datum d of an edge the tick handler draws
    pathAttr,           \* null or the 'd' attribute linkPath(d) has produced
    labelPosition,      \* null or the anchor getLabelPosition(d) has produced
    nodeTypes,          \* useMemo: the type labels of the legend
    typeColors,         \* useMemo: type label -> color
    highlightProps,     \* null or what a run of the highlight effect reads: the
                        \* sets of its render and the elements of the layout
    nodeAttrs,          \* null or node id -> attributes the run has set
    linkAttrs,          \* null or edge position -> attributes the run has set
    edgeLabelAttrs      \* null or edge position -> attributes the run has set

loadVars == <<graphData, isLoading, error, limit, groups, selectedGroup,
              pendingLoads, processedEdgesRef, latestPending>>

selectionVars == <<selectedNode, selectedEdge, highlightedNodes, highlightedEdges>>

episodeVars == <<loadedEpisodes, loadingEpisodes, expandedEpisode, episodeFetches>>

\* what a run of the layout effect sets besides processedEdgesRef
dragVars == <<gestures, pinned, position>>

layoutVars == <<simulation, orphanSimulations, alphaTarget, autoFitDoneRef, dragVars>>

viewVars == <<mounted, theme, autoFitApplied>>

deleteVars == <<isDeleting, deleteRequest, alertMessage, uncaughtError>>

geometryVars == <<edgeDatum, pathAttr, labelPosition>>

legendVars == <<nodeTypes, typeColors>>

appearanceVars == <<highlightProps, nodeAttrs, linkAttrs, edgeLabelAttrs>>

vars == <<loadVars, selectionVars, episodeVars, layoutVars, viewVars, deleteVars,
          geometryVars, appearanceVars, legendVars>>

\* the snapshot on display (graphData non-null)
Graph == SnapshotData(Val(graphData))

NodeIdsOf(data) == {data.nodes[i].id : i \in DOMAIN data.nodes}

InFlight(id) == episodeFetches[id].bg + episodeFetches[id].fg

\* the page after the first render and its effects
PageInit ==
    /\ graphData = None
    /\ isLoading = TRUE
    /\ error = None
    /\ limit = 500
    /\ groups = <<>>
    /\ selectedGroup = ""
    \* the fetch effect has run once on mount
    /\ pendingLoads = << GraphDataRequest >>
    /\ processedEdgesRef = <<>>
    /\ selectedNode = None
    /\ selectedEdge = None
    /\ highlightedNodes = {}
    /\ highlightedEdges = {}
    /\ loadedEpisodes = << >>
    /\ loadingEpisodes = {}
    /\ expandedEpisode = None
    /\ episodeFetches = [id \in EpisodeIds |-> [bg |-> 0, fg |-> 0]]
    /\ latestPending = TRUE
    /\ mounted = TRUE
    /\ theme = "light"
    \* graphData is null: the layout effect has returned at once
    /\ simulation = "none"
    /\ orphanSimulations = 0
    /\ alphaTarget = "0"
    /\ autoFitDoneRef = FALSE
    /\ autoFitApplied = FALSE
    /\ gestures = <<>>
    /\ pinned = << >>
    /\ position = << >>
    /\ isDeleting = FALSE
    /\ deleteRequest = None
    /\ alertMessage = None
    /\ uncaughtError = FALSE
    \* graphData is null: no type labels
    /\ nodeTypes = <<>>
    /\ typeColors = ComputeTypeColors(<<>>)

\* no edge is drawn while graphData is null
Init ==
    /\ PageInit
    /\ edgeDatum = None
    /\ pathAttr = None
    /\ labelPosition = None
    /\ highlightProps = None
    /\ nodeAttrs = None
    /\ linkAttrs = None
    /\ edgeLabelAttrs = None

\* typeColors[type] || defaultColor
getTypeColor(type) ==
    IF type \in DOMAIN typeColors THEN typeColors[type] ELSE defaultColor

(* ---------------------------------------------------------------------- *)
(* Snapshot loading (fetchData effect) and the layout effect              *)
(* ---------------------------------------------------------------------- *)

\* the effect body up to the await: runs when limit or selectedGroup changed
FetchDataStart(newLimit, newGroup) ==
    /\ mounted
    /\ Len(pendingLoads) < MaxPending
    /\ limit' = newLimit
    /\ selectedGroup' = newGroup
    /\ isLoading' = TRUE
    /\ error' = None
    /\ pendingLoads' = Append(pendingLoads, GraphDataRequest)
    /\ latestPending' = TRUE
    /\ UNCHANGED <<graphData, groups, processedEdgesRef, selectionVars, episodeVars,
                   layoutVars, viewVars, deleteVars, geometryVars, appearanceVars, legendVars>>

\* onChange of the limit selector
SetLimit(v) ==
    /\ v \in LimitOptions \ {limit}
    /\ FetchDataStart(v, selectedGroup)

\* onChange of the group selector
SetSelectedGroup(g) ==
    /\ g \in ({""} \cup SeqToSet(groups)) \ {selectedGroup}
    /\ FetchDataStart(limit, g)

RemoveAt(s, i) == SubSeq(s, 1, i - 1) \o SubSeq(s, i + 1, Len(s))

\* the processedEdges of each snapshot (a constant, computed once)
ProcessedABC == ProcessEdges(SnapshotABC.edges)

ProcessedLoop == ProcessEdges(SnapshotLoop.edges)

ProcessedDash == ProcessEdges(SnapshotDash.edges)

ProcessedDangling == ProcessEdges(SnapshotDangling.edges)

ProcessedGroups == ProcessEdges(SnapshotGroups.edges)

ProcessedManyTypes == ProcessEdges(SnapshotManyTypes.edges)

\* nodeTypes and typeColors as the memos compute them from each snapshot
\* (constants, computed once)
NodeTypesOfSnapshot == [s \in 1..6 |-> ComputeNodeTypes(SnapshotData(s))]

TypeColorsOfSnapshot == [s \in 1..6 |-> ComputeTypeColors(NodeTypesOfSnapshot[s])]

\* what the layout effect stores in processedEdgesRef.current for snapshot s
LayoutEdges(s) ==
    CASE s = 1 -> ProcessedABC
      [] s = 2 -> ProcessedLoop
      [] s = 3 -> ProcessedDash
      [] s = 4 -> ProcessedDangling
      [] s = 5 -> ProcessedGroups
      [] s = 6 -> ProcessedManyTypes

\* simulation.stop() without effect
StopSimulation_NoStop(status) == status

\* simulation.stop() of the cleanup: the timer of a running simulation ends
StopSimulation(status) == IF status = "none" THEN "none" ELSE "stopped"

\* the simulations still running once the cleanup of the last layout run
\* is through
RunningAfterCleanup ==
    orphanSimulations + (IF StopSimulation(simulation) = "running" THEN 1 ELSE 0)

\* the layout effect without autoFitDoneRef.current = false
LayoutEffect_KeepsFlag ==
    /\ orphanSimulations' = RunningAfterCleanup
    /\ autoFitDoneRef' = autoFitDoneRef
    /\ simulation' = "running"
    /\ alphaTarget' = "0"

\* a run of the layout effect with graphData non-null: the cleanup of the
\* run before it, the reset of the auto-fit flag, a new simulation.  When
\* graphData is the same object as before, processedEdgesRef.current gets
\* a new array with the same content.
LayoutEffect ==
    /\ orphanSimulations' = RunningAfterCleanup
    /\ autoFitDoneRef' = FALSE
    /\ simulation' = "running"
    /\ alphaTarget' = "0"

\* the drag gestures once the layout effect has run: the elements and the
\* drag behavior of the run before are gone, the gesture goes on with the
\* listeners and the datum it has
Rebound(gs, how) ==
    [k \in DOMAIN gs |-> [gs[k] EXCEPT !.on = IF @ = "last" THEN how ELSE @]]

\* the layout effect runs again on the graphData it has run on before: the
\* node objects, with their positions and pins, are the same
LayoutEffectOnSameNodes ==
    /\ LayoutEffect
    /\ gestures' = Rebound(gestures, "earlier")
    /\ UNCHANGED <<pinned, position>>

\* where d3.forceSimulation puts a node that has no position yet
InitialPoint == "p0"

\* the layout effect runs on a new graphData: new node objects without
\* pins; the data of the gestures in progress are no longer on display
NewNodes(data) ==
    /\ gestures' = [k \in DOMAIN gestures |-> [gestures[k] EXCEPT !.on = "stale"]]
    /\ pinned' = << >>
    /\ position' = [n \in NodeIdsOf(data) |-> InitialPoint]

\* request i is the one issued last
IsLatest(i) == latestPending /\ i = Len(pendingLoads)

\* the page is unmounted and the state and the refs of the instance are
\* discarded (shown as the initial values, with no request in flight: a
\* response that arrives later reaches no state).  No handler of the page
\* is enabled afterwards.
DiscardInstance ==
    /\ mounted' = FALSE
    /\ graphData' = None /\ isLoading' = TRUE /\ error' = None
    /\ limit' = 500 /\ groups' = <<>> /\ selectedGroup' = ""
    /\ pendingLoads' = <<>> /\ latestPending' = FALSE
    /\ processedEdgesRef' = <<>>
    /\ selectedNode' = None /\ selectedEdge' = None
    /\ highlightedNodes' = {} /\ highlightedEdges' = {}
    /\ loadedEpisodes' = << >> /\ loadingEpisodes' = {} /\ expandedEpisode' = None
    /\ episodeFetches' = [id \in EpisodeIds |-> [bg |-> 0, fg |-> 0]]
    /\ alphaTarget' = "0" /\ autoFitDoneRef' = FALSE /\ autoFitApplied' = FALSE
    /\ gestures' = <<>> /\ pinned' = << >> /\ position' = << >>
    /\ isDeleting' = FALSE /\ deleteRequest' = None
    /\ alertMessage' = None /\ uncaughtError' = FALSE
    /\ nodeTypes' = <<>> /\ typeColors' = ComputeTypeColors(<<>>)
    /\ UNCHANGED <<geometryVars, appearanceVars>>

\* simulation.force('link', d3.forceLink(processedEdges).id(d => d.id))
\* throws "node not found" for an edge whose source or target is not the
\* id of a node
ForceLinkThrows(data) ==
    \E j \in DOMAIN data.edges :
        \/ data.edges[j].source \notin NodeIdsOf(data)
        \/ data.edges[j].target \notin NodeIdsOf(data)

\* the snapshots of the catalogue on which the layout effect throws (a
\* constant, computed once)
ThrowingSnapshots == {s \in 1..6 : ForceLinkThrows(SnapshotData(s))}

\* the layout effect throws after d3.forceSimulation(nodes) has started
\* the timer of the new simulation: no cleanup is registered for it, and
\* React unmounts the page
LayoutEffectThrows ==
    /\ simulation' = StopSimulation(simulation)
    /\ orphanSimulations' = RunningAfterCleanup + 1
    /\ UNCHANGED theme
    /\ DiscardInstance

\* the response of request i arrives with snapshot s; the layout effect
\* then runs on the new graphData
FetchDataSuccess(i, s) ==
    /\ i \in DOMAIN pendingLoads
    /\ IF s \in ThrowingSnapshots
       THEN LayoutEffectThrows
       ELSE /\ graphData' = Some(s)
            /\ groups' = UniqueGroups(SnapshotData(s))
            /\ isLoading' = FALSE
            /\ pendingLoads' = RemoveAt(pendingLoads, i)
            /\ latestPending' = (latestPending /\ ~IsLatest(i))
            /\ processedEdgesRef' = LayoutEdges(s)
            /\ LayoutEffect
            /\ NewNodes(SnapshotData(s))
            /\ autoFitApplied' = FALSE
            \* the render that follows setGraphData recomputes both memos
            /\ nodeTypes' = NodeTypesOfSnapshot[s]
            /\ typeColors' = TypeColorsOfSnapshot[s]
            /\ UNCHANGED <<error, limit, selectedGroup, selectionVars, episodeVars,
                           mounted, theme, deleteVars, geometryVars, appearanceVars>>

\* a catch branch that also drops the snapshot on display
FetchDataFail_DropsSnapshot(i, detail) ==
    /\ i \in DOMAIN pendingLoads
    /\ detail \in {"", "detail"}
    /\ error' = Some(IF detail # "" THEN detail ELSE "Failed to load graph data")
    /\ isLoading' = FALSE
    /\ pendingLoads' = RemoveAt(pendingLoads, i)
    /\ latestPending' = (latestPending /\ ~IsLatest(i))
    /\ graphData' = None
    /\ UNCHANGED <<limit, groups, selectedGroup, processedEdgesRef,
                   selectionVars, episodeVars, layoutVars, viewVars, deleteVars, geometryVars, appearanceVars, legendVars>>

\* request i is rejected, with or without a detail message in the response
FetchDataFail(i, detail) ==
    /\ i \in DOMAIN pendingLoads
    /\ detail \in {"", "detail"}
    /\ error' = Some(IF detail # "" THEN detail ELSE "Failed to load graph data")
    /\ isLoading' = FALSE
    /\ pendingLoads' = RemoveAt(pendingLoads, i)
    /\ latestPending' = (latestPending /\ ~IsLatest(i))
    /\ UNCHANGED <<graphData, limit, groups, selectedGroup, processedEdgesRef,
                   selectionVars, episodeVars, layoutVars, viewVars, deleteVars, geometryVars, appearanceVars, legendVars>>

\* the Retry button of the error overlay: setLimit(limit) sets the value
\* the state has, so there is no render and the fetch effect does not run
Retry ==
    /\ error # None
    /\ limit' = limit
    /\ UNCHANGED <<graphData, isLoading, error, groups, selectedGroup, pendingLoads,
                   processedEdgesRef, latestPending, selectionVars, episodeVars,
                   layoutVars, viewVars, deleteVars, geometryVars, appearanceVars, legendVars>>

(* ---------------------------------------------------------------------- *)
(* Graph deletion (handleDeleteGraph)                                     *)
(* ---------------------------------------------------------------------- *)

\* click on the Delete Graph button, rendered while selectedGroup is
\* non-empty and disabled while isDeleting; the confirm() dialog is answered
\* with confirmed.  The closure of the invocation holds groups and
\* selectedGroup of the render the click happened in.
DeleteGraphClick(confirmed) ==
    /\ mounted
    /\ selectedGroup # ""
    /\ ~isDeleting
    /\ IF confirmed
       THEN /\ isDeleting' = TRUE
            /\ deleteRequest' = Some([groups |-> groups, selectedGroup |-> selectedGroup])
            /\ alertMessage' = None
       ELSE UNCHANGED <<isDeleting, deleteRequest, alertMessage>>
    /\ UNCHANGED <<loadVars, selectionVars, episodeVars, layoutVars, viewVars,
                   uncaughtError, geometryVars, appearanceVars, legendVars>>

\* groups.filter(g => g !== selectedGroup) on the values of the closure
handleDeleteGraph_groups(closure) ==
    SelectSeq(closure.groups, LAMBDA g : g # closure.selectedGroup)

\* the response has success = true.  setSelectedGroup('') changes the state,
\* and with it runs the fetch effect, when the filter is not '' already;
\* setLimit(prev => prev) sets the value the state has.
DeleteSuccess ==
    /\ deleteRequest # None
    /\ selectedGroup = "" \/ Len(pendingLoads) < MaxPending
    /\ groups' = handleDeleteGraph_groups(Val(deleteRequest))
    /\ selectedGroup' = ""
    /\ limit' = limit
    /\ isDeleting' = FALSE
    /\ deleteRequest' = None
    /\ IF selectedGroup # ""
       THEN /\ isLoading' = TRUE
            /\ error' = None
            /\ pendingLoads' = Append(pendingLoads, GraphDataRequest)
            /\ latestPending' = TRUE
       ELSE UNCHANGED <<isLoading, error, pendingLoads, latestPending>>
    /\ UNCHANGED <<graphData, processedEdgesRef, selectionVars, episodeVars,
                   layoutVars, viewVars, alertMessage, uncaughtError, geometryVars, appearanceVars, legendVars>>

\* the catch and finally blocks without setIsDeleting(false)
handleDeleteGraph_failure_NoFinally(how) ==
    [alert      |-> IF how = "unsuccessful" THEN "Failed to delete graph"
                                            ELSE "Error deleting graph",
     isDeleting |-> TRUE,
     throws     |-> FALSE]

\* what the else branch (success = false) and the catch block (the request
\* throws an Error) leave behind, the finally block included
handleDeleteGraph_failure(how) ==
    [alert      |-> IF how = "unsuccessful" THEN "Failed to delete graph"
                                            ELSE "Error deleting graph",
     isDeleting |-> FALSE,
     throws     |-> FALSE]

\* the response has success = false, or api.delete rejects
DeleteFail(how) ==
    /\ how \in {"unsuccessful", "throws"}
    /\ deleteRequest # None
    /\ alertMessage' = Some(handleDeleteGraph_failure(how).alert)
    /\ isDeleting' = handleDeleteGraph_failure(how).isDeleting
    /\ uncaughtError' = (uncaughtError \/ handleDeleteGraph_failure(how).throws)
    /\ deleteRequest' = None
    /\ UNCHANGED <<loadVars, selectionVars, episodeVars, layoutVars, viewVars,
                   geometryVars, appearanceVars, legendVars>>

(* ---------------------------------------------------------------------- *)
(* Episode cache: request guards                                          *)
(* ---------------------------------------------------------------------- *)

\* loadedEpisodes[id] is truthy
IsLoaded(id) == id \in DOMAIN loadedEpisodes

\* loadEpisodeBackground passes its early return and issues a fetch
BackgroundStarts(id) == ~(IsLoaded(id) \/ id \in loadingEpisodes)

\* loadEpisode that goes on to the fetch for an id that is already loaded
loadEpisode_NoLoadedCheck(id) ==
    IF id \in loadingEpisodes THEN "return" ELSE "fetch"

\* which branch loadEpisode takes: toggle the expanded episode, return
\* because the id is loading, or issue a fetch
loadEpisode(id) ==
    IF IsLoaded(id) THEN "toggle"
    ELSE IF id \in loadingEpisodes THEN "return"
    ELSE "fetch"

\* edge.episodes.forEach(...) of handleEdgeClick / navigateToEdge: the ids,
\* one entry per call of loadEpisodeBackground that issues a fetch.  The
\* closure state is the same for every iteration.
Preload(episodes) ==
    SelectSeq(episodes, LAMBDA id : ~IsLoaded(id) /\ BackgroundStarts(id))

Occurrences(s, x) == Cardinality({i \in DOMAIN s : s[i] = x})

(* ---------------------------------------------------------------------- *)
(* Selection handlers: the state each one sets                            *)
(* ---------------------------------------------------------------------- *)

\* handleNodeClick without its setSelectedEdge(null)
handleNodeClick_KeepsEdge(node, edges) ==
    LET hit == {i \in DOMAIN edges : edges[i].source = node \/ edges[i].target = node}
    IN  [selectedNode     |-> Some(node),
         selectedEdge     |-> selectedEdge,
         highlightedNodes |-> {node} \cup {edges[i].source : i \in hit}
                                     \cup {edges[i].target : i \in hit},
         highlightedEdges |-> {i - 1 : i \in hit}]

\* handleNodeClick that looks at the source of an edge only
handleNodeClick_SourceOnly(node, edges) ==
    LET hit == {i \in DOMAIN edges : edges[i].source = node}
    IN  [selectedNode     |-> Some(node),
         selectedEdge     |-> None,
         highlightedNodes |-> {node} \cup {edges[i].source : i \in hit}
                                     \cup {edges[i].target : i \in hit},
         highlightedEdges |-> {i - 1 : i \in hit}]

\* edges.forEach((edge, index) => ...) of handleNodeClick
handleNodeClick(node, edges) ==
    LET hit == {i \in DOMAIN edges : edges[i].source = node \/ edges[i].target = node}
    IN  [selectedNode     |-> Some(node),
         selectedEdge     |-> None,
         highlightedNodes |-> {node} \cup {edges[i].source : i \in hit}
                                     \cup {edges[i].target : i \in hit},
         highlightedEdges |-> {i - 1 : i \in hit}]

\* handleEdgeClick without its setSelectedNode(null)
handleEdgeClick_KeepsNode(edge, edgeIndex) ==
    [selectedEdge     |-> Some(edge),
     selectedNode     |-> selectedNode,
     expandedEpisode  |-> None,
     highlightedNodes |-> {edge.source, edge.target},
     highlightedEdges |-> {edgeIndex},
     preload          |-> Preload(edge.episodes)]

handleEdgeClick(edge, edgeIndex) ==
    [selectedEdge     |-> Some(edge),
     selectedNode     |-> None,
     expandedEpisode  |-> None,
     highlightedNodes |-> {edge.source, edge.target},
     highlightedEdges |-> {edgeIndex},
     preload          |-> Preload(edge.episodes)]

\* clearSelection without its setHighlightedEdges(new Set())
clearSelection_KeepsEdges ==
    [selectedNode     |-> None,
     selectedEdge     |-> None,
     highlightedNodes |-> {},
     highlightedEdges |-> highlightedEdges]

clearSelection ==
    [selectedNode     |-> None,
     selectedEdge     |-> None,
     highlightedNodes |-> {},
     highlightedEdges |-> {}]

\* reads processedEdgesRef.current and the originalIndex of each edge
navigateToNode(node) ==
    LET edges == processedEdgesRef
        hit   == {i \in DOMAIN edges : edges[i].source = node \/ edges[i].target = node}
    IN  [selectedNode     |-> Some(node),
         selectedEdge     |-> None,
         highlightedNodes |-> {node} \cup {edges[i].source : i \in hit}
                                     \cup {edges[i].target : i \in hit},
         highlightedEdges |-> {edges[i].originalIndex : i \in hit}]

\* navigateToEdge without its setExpandedEpisode(null)
navigateToEdge_KeepsExpanded(edge) ==
    [selectedEdge     |-> Some(edge),
     selectedNode     |-> None,
     expandedEpisode  |-> expandedEpisode,
     highlightedNodes |-> {edge.source, edge.target},
     highlightedEdges |-> {edge.originalIndex},
     preload          |-> Preload(edge.episodes)]

navigateToEdge(edge) ==
    [selectedEdge     |-> Some(edge),
     selectedNode     |-> None,
     expandedEpisode  |-> None,
     highlightedNodes |-> {edge.source, edge.target},
     highlightedEdges |-> {edge.originalIndex},
     preload          |-> Preload(edge.episodes)]

\* processedEdgesRef.current.filter(...) of getConnectedEdges
getConnectedEdges(node) ==
    SelectSeq(processedEdgesRef, LAMBDA e : e.source = node \/ e.target = node)

(* ---------------------------------------------------------------------- *)
(* Selection actions                                                      *)
(* ---------------------------------------------------------------------- *)

\* commit the state set by a node selection or a clear
SetSelection(r) ==
    /\ selectedNode' = r.selectedNode
    /\ selectedEdge' = r.selectedEdge
    /\ highlightedNodes' = r.highlightedNodes
    /\ highlightedEdges' = r.highlightedEdges

\* commit the state set by an edge selection and issue its preloads
SetEdgeSelection(r) ==
    /\ \A id \in EpisodeIds : InFlight(id) + Occurrences(r.preload, id) <= MaxInFlight
    /\ SetSelection(r)
    /\ expandedEpisode' = r.expandedEpisode
    /\ loadingEpisodes' = loadingEpisodes \cup SeqToSet(r.preload)
    /\ episodeFetches' =
          [id \in EpisodeIds |->
              [episodeFetches[id] EXCEPT !.bg = @ + Occurrences(r.preload, id)]]
    /\ UNCHANGED loadedEpisodes
    \* setLoadingEpisodes gives loadEpisodeBackground and handleEdgeClick a
    \* new identity, a dependency of the layout effect
    /\ IF r.preload # <<>> THEN LayoutEffectOnSameNodes ELSE UNCHANGED layoutVars

\* a node click that also empties loadingEpisodes
NodeClick_ClearsLoading(n) ==
    /\ graphData # None
    /\ n \in NodeIdsOf(Graph)
    /\ SetSelection(handleNodeClick(n, processedEdgesRef))
    /\ loadingEpisodes' = {}
    /\ UNCHANGED <<loadVars, loadedEpisodes, expandedEpisode, episodeFetches,
                   layoutVars, viewVars, deleteVars, geometryVars, appearanceVars, legendVars>>

\* click on the circle of node n
NodeClick(n) ==
    /\ graphData # None
    /\ n \in NodeIdsOf(Graph)
    /\ SetSelection(handleNodeClick(n, processedEdgesRef))
    /\ UNCHANGED <<loadVars, episodeVars, layoutVars, viewVars, deleteVars, geometryVars, appearanceVars, legendVars>>

\* click on the path or the label of the edge at position i
LinkClick(i) ==
    /\ graphData # None
    /\ i \in DOMAIN processedEdgesRef
    /\ SetEdgeSelection(handleEdgeClick(processedEdgesRef[i],
                                        processedEdgesRef[i].originalIndex))
    /\ UNCHANGED <<loadVars, viewVars, deleteVars, geometryVars, appearanceVars, legendVars>>

\* click on the svg background
BackgroundClick ==
    /\ graphData # None
    /\ SetSelection(clearSelection)
    /\ UNCHANGED <<loadVars, episodeVars, layoutVars, viewVars, deleteVars, geometryVars, appearanceVars, legendVars>>

\* close button of the node or edge details panel
CloseDetails ==
    /\ selectedNode # None \/ selectedEdge # None
    /\ SetSelection(clearSelection)
    /\ UNCHANGED <<loadVars, episodeVars, layoutVars, viewVars, deleteVars, geometryVars, appearanceVars, legendVars>>

\* source / target badge of the edge details panel
NavigateToNode(n) ==
    /\ selectedEdge # None
    /\ n \in {Val(selectedEdge).source, Val(selectedEdge).target}
    /\ SetSelection(navigateToNode(n))
    /\ UNCHANGED <<loadVars, episodeVars, layoutVars, viewVars, deleteVars, geometryVars, appearanceVars, legendVars>>

\* relationship row k of the node details panel
NavigateToEdge(k) ==
    /\ selectedNode # None
    /\ k \in DOMAIN getConnectedEdges(Val(selectedNode))
    /\ SetEdgeSelection(navigateToEdge(getConnectedEdges(Val(selectedNode))[k]))
    /\ UNCHANGED <<loadVars, viewVars, deleteVars, geometryVars, appearanceVars, legendVars>>

(* ---------------------------------------------------------------------- *)
(* Episode cache actions                                                  *)
(* ---------------------------------------------------------------------- *)

\* a toggle that collapses whatever is expanded
toggleExpanded_AlwaysCollapses(id) == None

\* expandedEpisode === episodeUuid ? null : episodeUuid
toggleExpanded(id) == IF expandedEpisode = Some(id) THEN None ELSE Some(id)

\* a click that expands the episode before its fetch has answered
ToggleEpisode_ExpandsAtOnce(id) ==
    /\ selectedEdge # None
    /\ id \in SeqToSet(Val(selectedEdge).episodes)
    /\ CASE loadEpisode(id) = "toggle" ->
              /\ expandedEpisode' = toggleExpanded(id)
              /\ UNCHANGED <<loadedEpisodes, loadingEpisodes, episodeFetches, layoutVars>>
         [] loadEpisode(id) = "fetch" ->
              /\ InFlight(id) < MaxInFlight
              /\ loadingEpisodes' = loadingEpisodes \cup {id}
              /\ episodeFetches' = [episodeFetches EXCEPT ![id].fg = @ + 1]
              /\ expandedEpisode' = Some(id)
              /\ UNCHANGED loadedEpisodes
              /\ LayoutEffectOnSameNodes
         [] loadEpisode(id) = "return" ->
              UNCHANGED <<episodeVars, layoutVars>>
    /\ UNCHANGED <<loadVars, selectionVars, viewVars, deleteVars, geometryVars, appearanceVars, legendVars>>

\* click on an episode row of the edge details panel (loadEpisode)
ToggleEpisode(id) ==
    /\ selectedEdge # None
    /\ id \in SeqToSet(Val(selectedEdge).episodes)
    /\ CASE loadEpisode(id) = "toggle" ->
              /\ expandedEpisode' = toggleExpanded(id)
              /\ UNCHANGED <<loadedEpisodes, loadingEpisodes, episodeFetches, layoutVars>>
         [] loadEpisode(id) = "fetch" ->
              /\ InFlight(id) < MaxInFlight
              /\ loadingEpisodes' = loadingEpisodes \cup {id}
              /\ episodeFetches' = [episodeFetches EXCEPT ![id].fg = @ + 1]
              /\ UNCHANGED <<loadedEpisodes, expandedEpisode>>
              /\ LayoutEffectOnSameNodes
         [] loadEpisode(id) = "return" ->
              UNCHANGED <<episodeVars, layoutVars>>
    /\ UNCHANGED <<loadVars, selectionVars, viewVars, deleteVars, geometryVars, appearanceVars, legendVars>>

\* { [id]: episode }: the map without its earlier entries
PutEpisode_OnlyNew(prev, id, episode) == [k \in {id} |-> episode]

\* { ...prev, [id]: episode }
PutEpisode(prev, id, episode) ==
    [k \in DOMAIN prev \cup {id} |-> IF k = id THEN episode ELSE prev[k]]

\* a successful response that expands its episode whatever its kind
EpisodeFetchResponds_AlwaysExpands(id, kind, episode) ==
    /\ episodeFetches[id][kind] > 0
    /\ episodeFetches' = [episodeFetches EXCEPT ![id][kind] = @ - 1]
    /\ loadedEpisodes' = PutEpisode(loadedEpisodes, id, episode)
    /\ expandedEpisode' = Some(id)
    /\ loadingEpisodes' = loadingEpisodes \ {id}
    /\ LayoutEffectOnSameNodes
    /\ UNCHANGED <<loadVars, selectionVars, viewVars, deleteVars, geometryVars, appearanceVars, legendVars>>

\* a fetch of kind "bg" (loadEpisodeBackground) or "fg" (loadEpisode)
\* resolves with success and the given episode
EpisodeFetchResponds(id, kind, episode) ==
    /\ episodeFetches[id][kind] > 0
    /\ episodeFetches' = [episodeFetches EXCEPT ![id][kind] = @ - 1]
    /\ loadedEpisodes' = PutEpisode(loadedEpisodes, id, episode)
    /\ expandedEpisode' = IF kind = "fg" THEN Some(id) ELSE expandedEpisode
    /\ loadingEpisodes' = loadingEpisodes \ {id}
    \* loadedEpisodes and loadingEpisodes are new objects
    /\ LayoutEffectOnSameNodes
    /\ UNCHANGED <<loadVars, selectionVars, viewVars, deleteVars, geometryVars, appearanceVars, legendVars>>

\* the backend answers the same episode to every request for an id
EpisodeFetchSuccess(id, kind) == EpisodeFetchResponds(id, kind, EpisodeData(id))

\* the request throws, or the response has success = false or no episode
EpisodeFetchFail(id, kind, how) ==
    /\ how \in {"throws", "unsuccessful"}
    /\ episodeFetches[id][kind] > 0
    /\ episodeFetches' = [episodeFetches EXCEPT ![id][kind] = @ - 1]
    /\ loadingEpisodes' = loadingEpisodes \ {id}
    \* the finally block sets a new Set as loadingEpisodes
    /\ LayoutEffectOnSameNodes
    /\ UNCHANGED <<loadedEpisodes, expandedEpisode, loadVars, selectionVars, viewVars, deleteVars, geometryVars, appearanceVars, legendVars>>

(* ---------------------------------------------------------------------- *)
(* Force simulation: theme, drag, settle, unmount                         *)
(* ---------------------------------------------------------------------- *)

\* the ThemeContext switches the theme, a dependency of the layout effect
\* (which returns at once while graphData is null)
ThemeChange ==
    /\ mounted
    /\ theme' = IF theme = "light" THEN "dark" ELSE "light"
    /\ IF graphData # None THEN LayoutEffectOnSameNodes ELSE UNCHANGED layoutVars
    /\ UNCHANGED <<loadVars, selectionVars, episodeVars, mounted,
                   autoFitApplied, deleteVars, geometryVars, appearanceVars, legendVars>>

\* the points a node or a pointer may be at
Points == {"p0", "p1"}

\* d.fx = x, d.fy = y
Pin(pins, n, point) == [m \in DOMAIN pins \cup {n} |-> IF m = n THEN point ELSE pins[m]]

\* d.fx = null, d.fy = null
Unpin(pins, n) == [m \in DOMAIN pins \ {n} |-> pins[m]]

\* event.active of a 'start' event, and of an 'end' event once the gesture
\* is taken out: the gestures in progress on the drag behavior of the last
\* layout run
ActiveGestures(gs) == Cardinality({k \in DOMAIN gs : gs[k].on = "last"})

\* 'start' of a drag gesture on node n (mouse button or a touch point; a
\* second touch may land on a node that is under a gesture already)
DragStart(n) ==
    /\ mounted
    /\ graphData # None
    /\ n \in NodeIdsOf(Graph)
    /\ Len(gestures) < MaxGestures
    /\ IF ActiveGestures(gestures) = 0
       THEN alphaTarget' = "0.3" /\ simulation' = "running"
       ELSE UNCHANGED <<alphaTarget, simulation>>
    /\ pinned' = Pin(pinned, n, position[n])
    /\ gestures' = Append(gestures, [subject |-> n, on |-> "last"])
    /\ UNCHANGED <<loadVars, selectionVars, episodeVars, orphanSimulations,
                   autoFitDoneRef, position, viewVars, deleteVars, geometryVars, appearanceVars,
                   legendVars>>

\* the mouse: one gesture at a time
MouseDragStart(n) == gestures = <<>> /\ DragStart(n)

\* 'drag' of gesture k, the pointer at point: the pin of the datum follows,
\* on display or not
DragMove(k, point) ==
    /\ k \in DOMAIN gestures
    /\ point \in Points
    /\ pinned' = IF gestures[k].on = "stale" THEN pinned
                 ELSE Pin(pinned, gestures[k].subject, point)
    /\ UNCHANGED <<loadVars, selectionVars, episodeVars, simulation, orphanSimulations,
                   alphaTarget, autoFitDoneRef, gestures, position, viewVars,
                   deleteVars, geometryVars, appearanceVars, legendVars>>

\* d.fx = null; d.fy = null of the 'end' handler, on the datum of the gesture
dragended(pins, gesture) ==
    IF gesture.on = "stale" THEN pins ELSE Unpin(pins, gesture.subject)

\* 'end' of gesture k.  alphaTarget(0) goes to the simulation of the layout
\* run that created the dragged element, when no other gesture of that run
\* is in progress; the simulation of an earlier run has been stopped.
DragEnd(k) ==
    /\ k \in DOMAIN gestures
    /\ gestures' = RemoveAt(gestures, k)
    /\ IF gestures[k].on = "last" /\ ActiveGestures(RemoveAt(gestures, k)) = 0
       THEN alphaTarget' = "0"
       ELSE UNCHANGED alphaTarget
    /\ pinned' = dragended(pinned, gestures[k])
    /\ UNCHANGED <<loadVars, selectionVars, episodeVars, simulation, orphanSimulations,
                   autoFitDoneRef, position, viewVars, deleteVars, geometryVars, appearanceVars,
                   legendVars>>

\* one tick of the running simulation: a node with a pin is put at its
\* pin, the forces move every other node
Tick ==
    /\ mounted
    /\ graphData # None
    /\ simulation = "running"
    /\ position' \in {next \in [NodeIdsOf(Graph) -> Points] :
                         \A n \in DOMAIN pinned : next[n] = pinned[n]}
    /\ UNCHANGED <<loadVars, selectionVars, episodeVars, simulation, orphanSimulations,
                   alphaTarget, autoFitDoneRef, gestures, pinned, viewVars,
                   deleteVars, geometryVars, appearanceVars, legendVars>>

\* the 'end' handler passes its guard and finds a bounding box (minX is not
\* Infinity: the snapshot has a node)
AutoFitFires == ~autoFitDoneRef /\ Len(Graph.nodes) > 0

\* simulation.on('end', ...): the flag and the transform after the handler
OnSimulationEnd ==
    IF autoFitDoneRef
    THEN [autoFitDoneRef |-> TRUE, autoFitApplied |-> autoFitApplied]
    ELSE [autoFitDoneRef |-> TRUE,
          autoFitApplied |-> autoFitApplied \/ Len(Graph.nodes) > 0]

\* alpha of the running simulation falls below alphaMin: the timer stops
\* and 'end' is dispatched
SimulationEnd ==
    /\ simulation = "running"
    /\ alphaTarget = "0"
    /\ simulation' = "settled"
    /\ autoFitDoneRef' = OnSimulationEnd.autoFitDoneRef
    /\ autoFitApplied' = OnSimulationEnd.autoFitApplied
    /\ UNCHANGED <<loadVars, selectionVars, episodeVars, orphanSimulations,
                   alphaTarget, dragVars, mounted, theme, deleteVars, geometryVars, appearanceVars,
                   legendVars>>

\* the user navigates away: the cleanup of the layout effect runs
Unmount ==
    /\ mounted
    /\ simulation' = StopSimulation(simulation)
    /\ UNCHANGED <<orphanSimulations, theme>>
    /\ DiscardInstance

(* ---------------------------------------------------------------------- *)
(* Numbers of the geometry: fractions n/d, with NaN and the infinities     *)
(* ---------------------------------------------------------------------- *)
\* A number is [n |-> numerator, d |-> denominator] in lowest terms with
\* d > 0.  d = 0 marks the values that are not finite: 0/0 is NaN, 1/0 is
\* Infinity, -1/0 is -Infinity.  The arithmetic is that of IEEE 754 without
\* its rounding; the coordinates drawn below keep every result exact.

RECURSIVE Gcd(_, _)
Gcd(a, b) == IF b = 0 THEN a ELSE Gcd(b, a % b)

Abs(i) == IF i < 0 THEN -i ELSE i

Sign(i) == IF i < 0 THEN -1 ELSE IF i > 0 THEN 1 ELSE 0

NaN == [n |-> 0, d |-> 0]

\* n/d in lowest terms; d = 0 gives NaN or an infinity
Frac(n, d) ==
    IF d = 0 THEN [n |-> Sign(n), d |-> 0]
    ELSE LET g == Gcd(Abs(n), Abs(d))
         IN  [n |-> (Sign(d) * n) \div g, d |-> Abs(d) \div g]

Num(i) == [n |-> i, d |-> 1]

IsFinite(a) == a.d # 0

\* a + b
Plus(a, b) ==
    IF a = NaN \/ b = NaN THEN NaN
    ELSE IF a.d = 0 /\ b.d = 0 THEN (IF a.n = b.n THEN a ELSE NaN)
    ELSE IF a.d = 0 THEN a
    ELSE IF b.d = 0 THEN b
    ELSE Frac(a.n * b.d + b.n * a.d, a.d * b.d)

\* -a
Neg(a) == [n |-> -a.n, d |-> a.d]

\* a - b
Minus(a, b) == Plus(a, Neg(b))

\* a * b
Times(a, b) ==
    IF a = NaN \/ b = NaN THEN NaN
    ELSE IF a.d = 0 \/ b.d = 0 THEN Frac(Sign(a.n) * Sign(b.n), 0)
    ELSE Frac(a.n * b.n, a.d * b.d)

\* a / b: 0/0 is NaN, x/0 an infinity
DividedBy(a, b) ==
    IF a = NaN \/ b = NaN THEN NaN
    ELSE IF a.d = 0 /\ b.d = 0 THEN NaN
    ELSE IF a.d = 0 THEN Frac(Sign(a.n) * (IF b.n < 0 THEN -1 ELSE 1), 0)
    ELSE IF b.d = 0 THEN Num(0)
    ELSE Frac(a.n * b.d, a.d * b.n)

\* the root of a square number
IntSqrt(k) == CHOOSE r \in 0..k : r * r = k

\* Math.sqrt on fractions whose numerator and denominator are squares
Sqrt(a) ==
    IF a.d = 0 THEN (IF a.n = 1 THEN a ELSE NaN)
    ELSE IF a.n < 0 THEN NaN
    ELSE Frac(IntSqrt(a.n), IntSqrt(a.d))

\* !a for a number: 0 and NaN are falsy
Falsy(a) == a.n = 0

(* ---------------------------------------------------------------------- *)
(* Geometry of the edges: linkPath, getLabelPosition                      *)
(* ---------------------------------------------------------------------- *)
\* A path string is the sequence of its commands, each [cmd, args]; the
\* empty string is <<>>.

\* an offset that grows with linkIndex alone
curveOffset_FromIndexOnly(linkIndex, linkCount) == Times(Num(linkIndex), Num(30))

\* (linkIndex - (linkCount - 1) / 2) * 30
curveOffset(linkIndex, linkCount) ==
    Times(Minus(Num(linkIndex), DividedBy(Num(linkCount - 1), Num(2))), Num(30))

\* d.linkCount || 1
LinkCountOf(d) == IF d.linkCount = 0 THEN 1 ELSE d.linkCount

\* linkPath(d) of the layout effect
linkPath(d) ==
    LET source == d.source
        target == d.target
        dx == Minus(target.x, source.x)
        dy == Minus(target.y, source.y)
        dr == Sqrt(Plus(Times(dx, dx), Times(dy, dy)))
        offset == curveOffset(d.linkIndex, LinkCountOf(d))
        midX == DividedBy(Plus(source.x, target.x), Num(2))
        midY == DividedBy(Plus(source.y, target.y), Num(2))
        nx == DividedBy(Neg(dy), dr)
        ny == DividedBy(dx, dr)
        ctrlX == Plus(midX, Times(nx, offset))
        ctrlY == Plus(midY, Times(ny, offset))
        r == Num(30)
    IN  IF Falsy(source.x) \/ Falsy(target.x) THEN <<>>
        ELSE IF source.id = target.id
        THEN << [cmd |-> "M", args |-> << Minus(source.x, Num(10)),
                                          Minus(source.y, Num(10)) >>],
                [cmd |-> "A", args |-> << r, r, Num(0), Num(1), Num(1),
                                          Plus(source.x, Num(10)),
                                          Minus(source.y, Num(10)) >>],
                [cmd |-> "A", args |-> << r, r, Num(0), Num(0), Num(1),
                                          Minus(source.x, Num(10)),
                                          Minus(source.y, Num(10)) >>] >>
        ELSE IF LinkCountOf(d) = 1
        THEN << [cmd |-> "M", args |-> << source.x, source.y >>],
                [cmd |-> "L", args |-> << target.x, target.y >>] >>
        ELSE << [cmd |-> "M", args |-> << source.x, source.y >>],
                [cmd |-> "Q", args |-> << ctrlX, ctrlY, target.x, target.y >>] >>

\* getLabelPosition(d) of the layout effect
getLabelPosition(d) ==
    LET source == d.source
        target == d.target
        dx == Minus(target.x, source.x)
        dy == Minus(target.y, source.y)
        dr == Sqrt(Plus(Times(dx, dx), Times(dy, dy)))
        midX == DividedBy(Plus(source.x, target.x), Num(2))
        midY == DividedBy(Plus(source.y, target.y), Num(2))
        offset == curveOffset(d.linkIndex, LinkCountOf(d))
        nx == DividedBy(Neg(dy), dr)
        ny == DividedBy(dx, dr)
        half == Frac(1, 2)
    IN  IF Falsy(source.x) \/ Falsy(target.x) THEN [x |-> Num(0), y |-> Num(0)]
        ELSE IF source.id = target.id
        THEN [x |-> source.x, y |-> Minus(source.y, Num(50))]
        ELSE IF LinkCountOf(d) = 1 THEN [x |-> midX, y |-> midY]
        ELSE [x |-> Plus(midX, Times(Times(nx, offset), half)),
              y |-> Plus(midY, Times(Times(ny, offset), half))]

\* node positions: the corners of a 30 x 40 rectangle, whose distances are
\* whole numbers, and two points with x = 0
NodePoints == {[x |-> Num(x), y |-> Num(y)] : x \in {0, 30, 60}, y \in {10, 50}}

\* the node objects d.source and d.target may be: an edge between A and B
\* at any two points, or a self-loop, whose source and target are one object
EdgeEnds ==
    {[source |-> [id |-> "A", x |-> p.x, y |-> p.y],
      target |-> [id |-> "B", x |-> q.x, y |-> q.y]] : p \in NodePoints, q \in NodePoints}
    \cup
    {[source |-> [id |-> "A", x |-> p.x, y |-> p.y],
      target |-> [id |-> "A", x |-> p.x, y |-> p.y]] : p \in NodePoints}

\* the data the edges of processedEdges may carry: linkIndex counts from 0
\* up to linkCount - 1
EdgeData ==
    {[source |-> e.source, target |-> e.target, linkCount |-> c, linkIndex |-> i] :
        e \in EdgeEnds, c \in 1..MaxLinkCount, i \in 0..(MaxLinkCount - 1)}

\* the edges a tick may have to draw
GeometryInit ==
    /\ PageInit
    /\ edgeDatum \in {Some(d) : d \in {e \in EdgeData : e.linkIndex < e.linkCount}}
    /\ pathAttr = None
    /\ labelPosition = None
    /\ highlightProps = None
    /\ nodeAttrs = None
    /\ linkAttrs = None
    /\ edgeLabelAttrs = None

\* the tick handler draws the edge: link.attr('d', linkPath) and the anchor
\* of its label
RenderEdge ==
    /\ edgeDatum # None
    /\ pathAttr = None
    /\ pathAttr' = Some(linkPath(Val(edgeDatum)))
    /\ labelPosition' = Some(getLabelPosition(Val(edgeDatum)))
    /\ UNCHANGED <<loadVars, selectionVars, episodeVars, layoutVars, viewVars,
                   deleteVars, edgeDatum, legendVars, appearanceVars>>

(* ---------------------------------------------------------------------- *)
(* Highlight effect: the attributes it sets on the elements of the layout *)
(* ---------------------------------------------------------------------- *)

highlightColor == "#206bc4"

\* the snapshots whose elements the highlight effect is run on
HighlightSnapshotIds == {1, 2, 3, 5, 6}

\* the pairs of sets the selection handlers leave for the elements of
\* snapshot s: a clear, a click on a node, a click on an edge
HandlerHighlights(s) ==
    {[highlightedNodes |-> r.highlightedNodes, highlightedEdges |-> r.highlightedEdges] :
        r \in {clearSelection}
            \cup {handleNodeClick(n, LayoutEdges(s)) : n \in NodeIdsOf(SnapshotData(s))}
            \cup {handleEdgeClick(LayoutEdges(s)[k], LayoutEdges(s)[k].originalIndex) :
                      k \in DOMAIN LayoutEdges(s)}}

\* a render that runs the highlight effect: the layout effect has created
\* the elements of snapshot s and stored the theme in themeColorsRef
HighlightInit ==
    /\ PageInit
    /\ edgeDatum = None
    /\ pathAttr = None
    /\ labelPosition = None
    /\ \E s \in HighlightSnapshotIds, isDark \in BOOLEAN :
          \E h \in HandlerHighlights(s) :
              highlightProps = Some([graph            |-> s,
                                     isDark           |-> isDark,
                                     highlightedNodes |-> h.highlightedNodes,
                                     highlightedEdges |-> h.highlightedEdges])
    /\ nodeAttrs = None
    /\ linkAttrs = None
    /\ edgeLabelAttrs = None

\* node.select('circle') and node.select('text')
HighlightNodes(p) ==
    [n \in NodeIdsOf(SnapshotData(p.graph)) |->
        [stroke      |-> IF n \in p.highlightedNodes THEN highlightColor
                         ELSE IF p.isDark THEN "#182433" ELSE "#ffffff",
         strokeWidth |-> IF n \in p.highlightedNodes THEN "3" ELSE "2",
         opacity     |-> IF p.highlightedNodes = {} THEN "1"
                         ELSE IF n \in p.highlightedNodes THEN "1" ELSE "0.3",
         textOpacity |-> IF p.highlightedNodes = {} THEN "1"
                         ELSE IF n \in p.highlightedNodes THEN "1" ELSE "0.3"]]

\* link.attr(...): one path for each edge of processedEdges
HighlightLinks(p) ==
    LET edges == LayoutEdges(p.graph)
    IN  [k \in DOMAIN edges |->
            LET on == edges[k].originalIndex \in p.highlightedEdges
            IN  [stroke        |-> IF on THEN highlightColor
                                   ELSE IF p.isDark THEN "#4a5568" ELSE "#cbd5e0",
                 strokeWidth   |-> IF on THEN "2.5" ELSE "1.5",
                 strokeOpacity |-> IF p.highlightedEdges = {} THEN "0.6"
                                   ELSE IF on THEN "1" ELSE "0.15",
                 markerEnd     |-> IF on THEN "url(#arrowhead-highlight)"
                                   ELSE "url(#arrowhead)"]]

\* edgeLabels.attr('opacity', ...)
HighlightEdgeLabels(p) ==
    LET edges == LayoutEdges(p.graph)
    IN  [k \in DOMAIN edges |->
            [opacity |-> IF p.highlightedEdges = {} THEN "1"
                         ELSE IF edges[k].originalIndex \in p.highlightedEdges
                              THEN "1" ELSE "0.2"]]

\* one run of the highlight effect
HighlightEffect ==
    /\ highlightProps # None
    /\ nodeAttrs = None
    /\ nodeAttrs' = Some(HighlightNodes(Val(highlightProps)))
    /\ linkAttrs' = Some(HighlightLinks(Val(highlightProps)))
    /\ edgeLabelAttrs' = Some(HighlightEdgeLabels(Val(highlightProps)))
    /\ UNCHANGED <<loadVars, selectionVars, episodeVars, layoutVars, viewVars,
                   deleteVars, geometryVars, legendVars, highlightProps>>

(* ---------------------------------------------------------------------- *)
(* Specification                                                          *)
(* ---------------------------------------------------------------------- *)

Kinds == {"bg", "fg"}

NodeIds == {"A", "B", "C", "D"}

Next ==
    \/ \E v \in LimitOptions : SetLimit(v)
    \/ \E g \in {"", "g1"} : SetSelectedGroup(g)
    \/ \E i \in 1..MaxPending, s \in SnapshotIds : FetchDataSuccess(i, s)
    \/ \E i \in 1..MaxPending, detail \in {"", "detail"} : FetchDataFail(i, detail)
    \/ Retry
    \/ \E n \in NodeIds : NodeClick(n)
    \/ \E i \in DOMAIN processedEdgesRef : LinkClick(i)
    \/ BackgroundClick
    \/ CloseDetails
    \/ \E n \in NodeIds : NavigateToNode(n)
    \/ \E k \in DOMAIN processedEdgesRef : NavigateToEdge(k)
    \/ \E id \in EpisodeIds : ToggleEpisode(id)
    \/ \E id \in EpisodeIds, kind \in Kinds, how \in {"throws", "unsuccessful"} :
          EpisodeFetchFail(id, kind, how)
    \/ \E id \in EpisodeIds, kind \in Kinds : EpisodeFetchSuccess(id, kind)

Spec == Init /\ [][Next]_vars

\* the page with the events of the simulation, the theme and the router,
\* next to the handlers that run the layout effect (node selection and a
\* failing snapshot fetch leave layoutVars alone)
SimNext ==
    \/ \E v \in LimitOptions : SetLimit(v)
    \/ \E i \in 1..MaxPending, s \in SnapshotIds : FetchDataSuccess(i, s)
    \/ \E i \in DOMAIN processedEdgesRef : LinkClick(i)
    \/ \E id \in EpisodeIds, kind \in Kinds, how \in {"throws", "unsuccessful"} :
          EpisodeFetchFail(id, kind, how)
    \/ \E id \in EpisodeIds, kind \in Kinds : EpisodeFetchSuccess(id, kind)
    \/ ThemeChange
    \/ \E n \in NodeIds : MouseDragStart(n)
    \/ \E k \in 1..MaxGestures : DragEnd(k)
    \/ SimulationEnd
    \/ Unmount

SimSpec == Init /\ [][SimNext]_vars

EdgeListNodeIds == {"A", "B", "C", "a", "c", "a-b", "b-c"}

\* snapshot loads over the snapshots of EdgeListSnapshotIds and the
\* selection of their nodes and edges
EdgeListNext ==
    \/ \E v \in LimitOptions : SetLimit(v)
    \/ \E i \in 1..MaxPending, s \in EdgeListSnapshotIds : FetchDataSuccess(i, s)
    \/ \E n \in EdgeListNodeIds : NodeClick(n)
    \/ \E i \in DOMAIN processedEdgesRef : LinkClick(i)
    \/ BackgroundClick

EdgeListSpec == Init /\ [][EdgeListNext]_vars

\* the episode cache with a backend whose episodes change over time, on
\* the A,B,C snapshot
EpisodeNext ==
    \/ \E v \in LimitOptions : SetLimit(v)
    \/ \E i \in 1..MaxPending : FetchDataSuccess(i, 1)
    \/ \E n \in NodeIds : NodeClick(n)
    \/ \E i \in DOMAIN processedEdgesRef : LinkClick(i)
    \/ BackgroundClick
    \/ \E id \in EpisodeIds : ToggleEpisode(id)
    \/ \E id \in EpisodeIds, kind \in Kinds, how \in {"throws", "unsuccessful"} :
          EpisodeFetchFail(id, kind, how)
    \/ \E id \in EpisodeIds, kind \in Kinds :
          \E episode \in EpisodeResponses(id) : EpisodeFetchResponds(id, kind, episode)

EpisodeSpec == Init /\ [][EpisodeNext]_vars

\* the snapshots that exercise the type labels
LegendSnapshotIds == {1, 2, 6}

\* snapshot loads, node selection and the theme
LegendNext ==
    \/ \E v \in LimitOptions : SetLimit(v)
    \/ \E i \in 1..MaxPending, s \in LegendSnapshotIds : FetchDataSuccess(i, s)
    \/ \E i \in 1..MaxPending, detail \in {"", "detail"} : FetchDataFail(i, detail)
    \/ \E n \in NodeIds : NodeClick(n)
    \/ BackgroundClick

LegendSpec == Init /\ [][LegendNext]_vars

\* the nodes of the two-node snapshot under drag gestures of the mouse
\* and of touch points, with the ticks of the simulation
DragNext ==
    \/ \E v \in LimitOptions : SetLimit(v)
    \/ \E i \in 1..MaxPending : FetchDataSuccess(i, 5)
    \/ ThemeChange
    \/ \E n \in NodeIds : DragStart(n)
    \/ \E k \in 1..MaxGestures, point \in Points : DragMove(k, point)
    \/ \E k \in 1..MaxGestures : DragEnd(k)
    \/ Tick
    \/ SimulationEnd

DragSpec == Init /\ [][DragNext]_vars

GeometryNext == RenderEdge

\* linkPath and getLabelPosition applied to every edge datum of EdgeData
GeometrySpec == GeometryInit /\ [][GeometryNext]_vars

\* the snapshots that exercise the group list
DeleteSnapshotIds == {1, 5}

\* the group selector, the Delete Graph button and the snapshot loads
DeleteNext ==
    \/ \E g \in {"", "g1", "g2"} : SetSelectedGroup(g)
    \/ \E i \in 1..MaxPending, s \in DeleteSnapshotIds : FetchDataSuccess(i, s)
    \/ \E i \in 1..MaxPending, detail \in {"", "detail"} : FetchDataFail(i, detail)
    \/ \E confirmed \in BOOLEAN : DeleteGraphClick(confirmed)
    \/ DeleteSuccess
    \/ \E how \in {"unsuccessful", "throws"} : DeleteFail(how)

DeleteSpec == Init /\ [][DeleteNext]_vars

\* the highlight effect alone, on the sets the handlers produce
HighlightNext == HighlightEffect

HighlightSpec == HighlightInit /\ [][HighlightNext]_vars

(* ---------------------------------------------------------------------- *)
(* Selection state machine                                                *)
(* ---------------------------------------------------------------------- *)

\* C1: in every reachable state at most one of selectedNode, selectedEdge
\* is non-null.
C1_AtMostOneSelected == selectedNode = None \/ selectedEdge = None

\* a node is selected after an edge selection has issued a preload
C1_Witness ==
    /\ selectedNode # None
    /\ selectedEdge = None
    /\ loadingEpisodes # {}


\* the ids of the nodes that share at least one edge of the snapshot with n
Neighbours(data, n) ==
    {m \in NodeIdsOf(data) :
        \E j \in DOMAIN data.edges :
            \/ data.edges[j].source = n /\ data.edges[j].target = m
            \/ data.edges[j].source = m /\ data.edges[j].target = n}

\* the indices (0-based positions in the snapshot's edge list) of the edges
\* that have n as source or target
IncidentIndices(data, n) ==
    {j - 1 : j \in {k \in DOMAIN data.edges :
                        data.edges[k].source = n \/ data.edges[k].target = n}}

\* C2: a click on node n of the current snapshot selects n and highlights
\* exactly n with its neighbours and exactly the indices of the edges
\* incident to n.
C2_NodeClickHighlights ==
    [][\A n \in NodeIds :
          (selectedNode' = Some(n) /\ NodeClick(n)) =>
              /\ selectedNode' = Some(n)
              /\ highlightedNodes' = {n} \cup Neighbours(Graph, n)
              /\ highlightedEdges' = IncidentIndices(Graph, n)]_vars

\* the scenario of the A,B,C snapshot: B is selected
C2_Witness ==
    /\ graphData = Some(1)
    /\ selectedNode = Some("B")
    /\ highlightedNodes = {"A", "B", "C"}
    /\ highlightedEdges = {0, 1, 2}

\* C3: a click on the edge at position i of the snapshot's edge list selects
\* that edge, deselects the node and highlights exactly its endpoints and
\* exactly the index i.
C3_EdgeClickHighlights ==
    [][\A i \in DOMAIN processedEdgesRef :
          (selectedEdge' = Some(processedEdgesRef[i]) /\ LinkClick(i)) =>
              /\ selectedEdge' # None
              /\ Val(selectedEdge').source = Graph.edges[i].source
              /\ Val(selectedEdge').target = Graph.edges[i].target
              /\ Val(selectedEdge').episodes = Graph.edges[i].episodes
              /\ selectedNode' = None
              /\ highlightedNodes' = {Graph.edges[i].source, Graph.edges[i].target}
              /\ highlightedEdges' = {i - 1}]_vars

\* the self-loop of snapshot 2 is selected: one highlighted node
C3_Witness ==
    /\ graphData = Some(2)
    /\ selectedEdge # None
    /\ Val(selectedEdge).source = Val(selectedEdge).target
    /\ selectedNode = None
    /\ highlightedNodes = {"C"}
    /\ highlightedEdges = {2}

\* C4: the close button (clear) and a background click lead to Idle from
\* any state: nothing selected, both highlight sets empty.
C4_ClearLeadsToIdle ==
    [][(BackgroundClick \/ CloseDetails) =>
          /\ selectedNode' = None
          /\ selectedEdge' = None
          /\ highlightedNodes' = {}
          /\ highlightedEdges' = {}]_vars

\* Idle again after an edge selection whose preload is still in flight
C4_Witness ==
    /\ selectedNode = None
    /\ selectedEdge = None
    /\ highlightedNodes = {}
    /\ highlightedEdges = {}
    /\ loadingEpisodes # {}

\* C5: in every reachable state the highlight sets are the ones the
\* selection rules derive from the current selection over the edge list of
\* the current snapshot, and are empty when nothing is selected.
C5_HighlightsDerived ==
    IF selectedNode # None
    THEN /\ graphData # None
         /\ highlightedNodes = {Val(selectedNode)} \cup Neighbours(Graph, Val(selectedNode))
         /\ highlightedEdges = IncidentIndices(Graph, Val(selectedNode))
    ELSE IF selectedEdge # None
    THEN /\ graphData # None
         /\ highlightedNodes = {Val(selectedEdge).source, Val(selectedEdge).target}
         /\ highlightedEdges =
               {j - 1 : j \in {k \in DOMAIN Graph.edges :
                     /\ Graph.edges[k].source = Val(selectedEdge).source
                     /\ Graph.edges[k].target = Val(selectedEdge).target
                     /\ Graph.edges[k].episodes = Val(selectedEdge).episodes
                     /\ k - 1 = Val(selectedEdge).originalIndex}}
    ELSE highlightedNodes = {} /\ highlightedEdges = {}

\* C6: in every state, for every node and every edge of the current
\* snapshot, navigateTo sets the same selection, highlight sets, expanded
\* episode and preloads as the click does.
C6_NavigateEqualsClick ==
    graphData # None =>
        /\ \A n \in NodeIdsOf(Graph) :
              navigateToNode(n) = handleNodeClick(n, processedEdgesRef)
        /\ \A n \in NodeIdsOf(Graph) :
              \A k \in DOMAIN getConnectedEdges(n) :
                 LET edge == getConnectedEdges(n)[k]
                 IN  \E i \in DOMAIN processedEdgesRef :
                        /\ processedEdgesRef[i] = edge
                        /\ navigateToEdge(edge) =
                              handleEdgeClick(processedEdgesRef[i],
                                              processedEdgesRef[i].originalIndex)

\* B is selected in the A,B,C snapshot with e1 loaded and e2 not requested:
\* the relationship rows of the panel and the canvas offer the same edges
C6_Witness ==
    /\ graphData = Some(1)
    /\ selectedNode = Some("B")
    /\ IsLoaded("e1")
    /\ ~IsLoaded("e2")
    /\ "e2" \notin loadingEpisodes
    /\ highlightedEdges = {0, 1, 2}

(* ---------------------------------------------------------------------- *)
(* Episode cache                                                          *)
(* ---------------------------------------------------------------------- *)

\* C7: once an episode id is loaded, no step issues another fetch for it.
C7_NoFetchOnceLoaded ==
    [][\A id \in EpisodeIds :
          IsLoaded(id) =>
              episodeFetches'[id].bg + episodeFetches'[id].fg <= InFlight(id)]_vars

\* e1 is loaded, nothing is in flight for it, and it has been expanded from
\* the panel of an edge that lists it
C7_Witness ==
    /\ IsLoaded("e1")
    /\ InFlight("e1") = 0
    /\ selectedEdge # None
    /\ "e1" \in SeqToSet(Val(selectedEdge).episodes)
    /\ expandedEpisode = Some("e1")

\* C8: at most one fetch per episode id is in flight at any time.
C8_AtMostOneFetchInFlight == \A id \in EpisodeIds : InFlight(id) <= 1

\* C9: a failing episode fetch leaves the id not loading and not loaded
\* (NotRequested), adds nothing to the loaded map and leaves the expanded
\* episode alone.
C9_FailureReturnsToNotRequested ==
    [][\A id \in EpisodeIds, kind \in Kinds, how \in {"throws", "unsuccessful"} :
          EpisodeFetchFail(id, kind, how) =>
              /\ id \notin loadingEpisodes'
              /\ id \notin DOMAIN loadedEpisodes'
              /\ loadedEpisodes' = loadedEpisodes
              /\ expandedEpisode' = expandedEpisode]_vars

\* the fetches issued by the selection of an edge with these episode ids:
\* one for each id that is neither loaded nor loading, none for any other
C10_IssuedOnce(episodes) ==
    \A id \in EpisodeIds :
        episodeFetches'[id].bg - episodeFetches[id].bg =
            IF id \in SeqToSet(episodes) /\ ~IsLoaded(id) /\ id \notin loadingEpisodes
            THEN 1 ELSE 0

\* C10: an edge selection (click or navigateTo) issues exactly one
\* background fetch for each of the edge's episode ids that is neither
\* loaded nor loading, and none for any other id.
C10_PreloadOncePerId ==
    [][/\ \A i \in DOMAIN processedEdgesRef :
             LinkClick(i) => C10_IssuedOnce(processedEdgesRef[i].episodes)
       /\ \A k \in DOMAIN processedEdgesRef :
             NavigateToEdge(k) =>
                 C10_IssuedOnce(getConnectedEdges(Val(selectedNode))[k].episodes)]_vars

(* ---------------------------------------------------------------------- *)
(* Snapshot loading                                                       *)
(* ---------------------------------------------------------------------- *)

\* C11: last-requested-wins.  Once the response of the request issued last
\* has been handled, the response (a snapshot or a failure) of a request
\* issued before it is discarded: it changes neither the snapshot, nor the
\* group list, nor the error.
C11_SupersededDiscarded ==
    [][\A i \in 1..MaxPending :
          (/\ ~latestPending
           /\ \/ \E s \in SnapshotIds : FetchDataSuccess(i, s)
              \/ \E detail \in {"", "detail"} : FetchDataFail(i, detail))
          => UNCHANGED <<graphData, groups, error>>]_vars

\* C19: a failing snapshot fetch leaves the snapshot on display, the group
\* list, the selection and the highlight sets unchanged, sets an error
\* message, clears the loading indicator and leaves the simulation alone.
C19_FailureKeepsState ==
    [][\A i \in 1..MaxPending, detail \in {"", "detail"} :
          FetchDataFail(i, detail) =>
              /\ UNCHANGED <<graphData, groups, processedEdgesRef, selectionVars,
                             layoutVars>>
              /\ error' # None
              /\ ~isLoading']_vars

\* a fetch has failed while a snapshot with a selected node is on display
\* and its simulation is running
C19_Witness ==
    /\ error # None
    /\ ~isLoading
    /\ graphData # None
    /\ selectedNode # None
    /\ highlightedEdges # {}
    /\ simulation = "running"

\* C20: whenever the error overlay is shown (a snapshot fetch has failed
\* and no fetch has been issued since), the Retry button issues a snapshot
\* fetch with the limit and the group filter of the selectors.
C20_RetryIssuesFetch ==
    (error # None /\ Len(pendingLoads) < MaxPending) =>
        ENABLED (Retry /\ FetchDataStart(limit, selectedGroup))

(* ---------------------------------------------------------------------- *)
(* Force simulation and auto-fit                                          *)
(* ---------------------------------------------------------------------- *)

\* C12: between the arrival of a snapshot and the arrival of the next one
\* the auto-fit transform is applied at most once: an 'end' event that
\* applies it finds that it has not been applied since the snapshot arrived.
C12_AutoFitOncePerLoad ==
    [][(SimulationEnd /\ AutoFitFires) => ~autoFitApplied]_vars

SelectionStep ==
    \/ \E n \in NodeIds : NodeClick(n) \/ NavigateToNode(n)
    \/ \E i \in DOMAIN processedEdgesRef : LinkClick(i) \/ NavigateToEdge(i)
    \/ BackgroundClick
    \/ CloseDetails

\* the completion of an episode fetch
EpisodeFetchStep ==
    \E id \in EpisodeIds, kind \in Kinds :
        \/ EpisodeFetchSuccess(id, kind)
        \/ \E how \in {"throws", "unsuccessful"} : EpisodeFetchFail(id, kind, how)

\* C14: no selection transition, and no completion of a prefetch that an
\* edge selection has issued, stops, recreates or restarts the simulation
\* or resets the auto-fit guard.
C14_SelectionKeepsSimulation ==
    [][(SelectionStep \/ EpisodeFetchStep) =>
          UNCHANGED <<simulation, autoFitDoneRef>>]_vars

\* C15: a change of the theme does not stop, recreate or restart the
\* simulation and does not reset the auto-fit guard.
C15_ThemeKeepsSimulation ==
    [][ThemeChange => UNCHANGED <<simulation, autoFitDoneRef>>]_vars

\* the simulations whose timer is running
RunningSimulations ==
    orphanSimulations + (IF simulation = "running" THEN 1 ELSE 0)

\* C16: at most one simulation is running at any time (the simulation of
\* a layout run is stopped before the next run creates one, and only a
\* running simulation dispatches 'tick' and 'end'), and the simulation of
\* the last layout run is not running once the page has been left.
C16_OneSimulationRunning ==
    /\ RunningSimulations <= 1
    /\ ~mounted => simulation # "running"

\* the page has been left while a simulation existed: it is stopped
C16_Witness ==
    /\ ~mounted
    /\ simulation = "stopped"
    /\ orphanSimulations = 0

(* ---------------------------------------------------------------------- *)
(* Working edge list                                                      *)
(* ---------------------------------------------------------------------- *)

\* the positions of the edges that join the same unordered pair of nodes
\* as the edge at position i
SamePair(edges, i) ==
    {j \in DOMAIN edges :
        {edges[j].source, edges[j].target} = {edges[i].source, edges[i].target}}

\* C17: for every edge of the working edge list, linkCount is the number of
\* edges that join the same unordered pair of nodes, and linkIndex is the
\* number of those that come before it, so 0 <= linkIndex < linkCount and
\* the indices of a pair are 0 .. linkCount - 1 in arrival order.
C17_LinkIndexPerPair ==
    \A i \in DOMAIN processedEdgesRef :
        /\ processedEdgesRef[i].linkCount = Cardinality(SamePair(processedEdgesRef, i))
        /\ processedEdgesRef[i].linkIndex =
              Cardinality({j \in SamePair(processedEdgesRef, i) : j < i})
        /\ 0 <= processedEdgesRef[i].linkIndex
        /\ processedEdgesRef[i].linkIndex < processedEdgesRef[i].linkCount

\* C18: when a snapshot arrives, the working edge list holds its edges
\* without those whose source or target is not the id of one of its nodes,
\* the simulation is built and the page stays up with the snapshot.
C18_DanglingEdgesDropped ==
    [][\A i \in 1..MaxPending, s \in EdgeListSnapshotIds :
          FetchDataSuccess(i, s) =>
              /\ mounted'
              /\ graphData' = Some(s)
              /\ simulation' = "running"
              /\ \A j \in DOMAIN processedEdgesRef' :
                    /\ processedEdgesRef'[j].source \in NodeIdsOf(SnapshotData(s))
                    /\ processedEdgesRef'[j].target \in NodeIdsOf(SnapshotData(s))]_vars

(* ---------------------------------------------------------------------- *)
(* Graph deletion                                                         *)
(* ---------------------------------------------------------------------- *)

\* C21: when the deletion of a group fails (success = false, or the request
\* throws), groups and selectedGroup are unchanged, an error message is
\* shown, no exception leaves the handler and isDeleting is false again.
C21_DeleteFailureKeepsGroups ==
    [][\A how \in {"unsuccessful", "throws"} :
          (deleteRequest' = None /\ DeleteFail(how)) =>
              /\ groups' = groups
              /\ selectedGroup' = selectedGroup
              /\ alertMessage' # None
              /\ ~uncaughtError'
              /\ ~isDeleting']_vars

\* a failed deletion of the selected group g1 has been reported
C21_Witness ==
    /\ alertMessage # None
    /\ ~isDeleting
    /\ deleteRequest = None
    /\ selectedGroup = "g1"
    /\ "g1" \in SeqToSet(groups)

\* C22: when the deletion of group g succeeds, groups afterwards is groups
\* as it stood when the response arrived without g, selectedGroup is '' and
\* a snapshot fetch has been issued.
C22_DeleteSuccessUpdatesGroups ==
    [][(deleteRequest' = None /\ DeleteSuccess) =>
          /\ groups' = SelectSeq(groups,
                                 LAMBDA g : g # Val(deleteRequest).selectedGroup)
          /\ selectedGroup' = ""
          /\ Len(pendingLoads') = Len(pendingLoads) + 1]_vars

(* ---------------------------------------------------------------------- *)
(* Episode cache: toggle, frame of the selection, loaded entries          *)
(* ---------------------------------------------------------------------- *)

\* C24: a click on the row of an episode that is loaded issues no fetch and
\* changes expandedEpisode alone: to null when that episode is the expanded
\* one, to that episode otherwise.
C24_ToggleLoadedFlipsExpanded ==
    [][\A id \in EpisodeIds :
          (IsLoaded(id) /\ ToggleEpisode(id)) =>
              /\ episodeFetches' = episodeFetches
              /\ loadingEpisodes' = loadingEpisodes
              /\ loadedEpisodes' = loadedEpisodes
              /\ expandedEpisode = Some(id) => expandedEpisode' = None
              /\ expandedEpisode # Some(id) => expandedEpisode' = Some(id)]_vars

\* both episodes of the edge B -> C are loaded, e1 is expanded and no fetch
\* is in flight
C24_Witness ==
    /\ selectedEdge # None
    /\ Val(selectedEdge).episodes = <<"e1", "e2">>
    /\ IsLoaded("e1") /\ IsLoaded("e2")
    /\ expandedEpisode = Some("e1")
    /\ \A id \in EpisodeIds : InFlight(id) = 0

\* C25: selecting a node (click, or the badge of the edge panel) and
\* clearing the selection leave loadedEpisodes and loadingEpisodes as they
\* are and issue no episode fetch.
C25_NodeSelectionKeepsEpisodes ==
    [][\/ UNCHANGED <<loadedEpisodes, loadingEpisodes, episodeFetches>>
       \/ ~(\/ \E n \in NodeIds : NodeClick(n) \/ NavigateToNode(n)
            \/ BackgroundClick
            \/ CloseDetails)]_vars

\* a node is selected while one episode is loaded and another is loading
C25_Witness ==
    /\ selectedNode # None
    /\ DOMAIN loadedEpisodes # {}
    /\ loadingEpisodes # {}
    /\ \E id \in EpisodeIds : InFlight(id) > 0

\* C26: an entry of loadedEpisodes is never removed and never gets another
\* content, whatever the step.
C26_LoadedEpisodeImmutable ==
    [][\A id \in DOMAIN loadedEpisodes :
          /\ id \in DOMAIN loadedEpisodes'
          /\ loadedEpisodes'[id] = loadedEpisodes[id]]_vars

(* ---------------------------------------------------------------------- *)
(* Geometry of the edges                                                  *)
(* ---------------------------------------------------------------------- *)

\* the edge datum has been drawn
Rendered == edgeDatum # None /\ pathAttr # None /\ labelPosition # None

\* the edge joins two nodes, both with a truthy x, at different points
DrawnBetweenTwoPoints ==
    /\ Rendered
    /\ Val(edgeDatum).source.id # Val(edgeDatum).target.id
    /\ ~Falsy(Val(edgeDatum).source.x) /\ ~Falsy(Val(edgeDatum).target.x)
    /\ \/ Val(edgeDatum).source.x # Val(edgeDatum).target.x
       \/ Val(edgeDatum).source.y # Val(edgeDatum).target.y

\* C27: for every linkCount n >= 2 the offsets of linkIndex 0..n-1 are
\* pairwise distinct and the offset of i is the negation of the offset of
\* n-1-i; for n = 3 they are -30, 0, 30; a curved edge has its control
\* point at that offset from the midpoint, at a right angle to the edge,
\* and the label anchor at half of it.
C27_OffsetsSymmetric ==
    /\ \A n \in 2..MaxLinkCount : \A i \in 0..(n - 1) :
          /\ curveOffset(i, n) = Neg(curveOffset(n - 1 - i, n))
          /\ \A j \in 0..(n - 1) : i # j => curveOffset(i, n) # curveOffset(j, n)
    /\ << curveOffset(0, 3), curveOffset(1, 3), curveOffset(2, 3) >>
          = << Num(-30), Num(0), Num(30) >>
    /\ (DrawnBetweenTwoPoints /\ Val(edgeDatum).linkCount >= 2) =>
          LET d      == Val(edgeDatum)
              path   == Val(pathAttr)
              label  == Val(labelPosition)
              midX   == DividedBy(Plus(d.source.x, d.target.x), Num(2))
              midY   == DividedBy(Plus(d.source.y, d.target.y), Num(2))
              ux     == Minus(path[2].args[1], midX)
              uy     == Minus(path[2].args[2], midY)
              offset == curveOffset(d.linkIndex, d.linkCount)
          IN  /\ path[2].cmd = "Q"
              /\ Plus(Times(ux, ux), Times(uy, uy)) = Times(offset, offset)
              /\ Plus(Times(ux, Minus(d.target.x, d.source.x)),
                      Times(uy, Minus(d.target.y, d.source.y))) = Num(0)
              /\ Minus(label.x, midX) = Times(ux, Frac(1, 2))
              /\ Minus(label.y, midY) = Times(uy, Frac(1, 2))

\* the third of three edges from (30, 10) to (60, 50): the control point is
\* 30 off the midpoint (45, 30), the label anchor 15
C27_Witness ==
    /\ Rendered
    /\ Val(edgeDatum).linkCount = 3 /\ Val(edgeDatum).linkIndex = 2
    /\ Val(pathAttr) = << [cmd |-> "M", args |-> << Num(30), Num(10) >>],
                          [cmd |-> "Q", args |-> << Num(21), Num(48), Num(60), Num(50) >>] >>
    /\ Val(labelPosition) = [x |-> Num(33), y |-> Num(39)]

\* every number of the path and of the anchor is finite
FiniteGeometry ==
    /\ \A k \in DOMAIN Val(pathAttr) :
          \A a \in DOMAIN Val(pathAttr)[k].args : IsFinite(Val(pathAttr)[k].args[a])
    /\ IsFinite(Val(labelPosition).x)
    /\ IsFinite(Val(labelPosition).y)

\* C28: an edge between two distinct nodes at one point (with a truthy x),
\* whatever its linkCount, is drawn as a straight segment of finite numbers
\* and has a finite label anchor.
C28_CoincidentNodesFinite ==
    (/\ Rendered
     /\ Val(edgeDatum).source.id # Val(edgeDatum).target.id
     /\ ~Falsy(Val(edgeDatum).source.x)
     /\ Val(edgeDatum).source.x = Val(edgeDatum).target.x
     /\ Val(edgeDatum).source.y = Val(edgeDatum).target.y) =>
        /\ Len(Val(pathAttr)) = 2
        /\ Val(pathAttr)[1].cmd = "M"
        /\ Val(pathAttr)[2].cmd = "L"
        /\ FiniteGeometry

\* C29: the path of a self-loop at (x, y) starts and ends at (x-10, y-10),
\* whatever x, y, linkIndex and linkCount are.
C29_SelfLoopClosed ==
    (Rendered /\ Val(edgeDatum).source.id = Val(edgeDatum).target.id) =>
        LET d     == Val(edgeDatum)
            path  == Val(pathAttr)
            last  == path[Len(path)].args
            start == << Minus(d.source.x, Num(10)), Minus(d.source.y, Num(10)) >>
        IN  /\ path # <<>>
            /\ path[1].cmd = "M"
            /\ path[1].args = start
            /\ << last[Len(last) - 1], last[Len(last)] >> = start

(* ---------------------------------------------------------------------- *)
(* Type colors                                                            *)
(* ---------------------------------------------------------------------- *)

\* the type label of the node at position k of the snapshot on display
TypeOfNode(k) == Graph.nodes[k].type

\* C30: with a snapshot on display, nodeTypes holds the distinct non-empty
\* type labels of its nodes in ascending order, the label at index i
\* (from 0) has the color palette[i mod 15], a node without type has the
\* default color, and nodes of one type have one color; this holds for the
\* snapshot on display after every load.
C30_TypeColorsFollowSnapshot ==
    graphData # None =>
        /\ SeqToSet(nodeTypes) = {TypeOfNode(k) : k \in DOMAIN Graph.nodes} \ {""}
        /\ \A i \in DOMAIN nodeTypes : \A j \in DOMAIN nodeTypes :
              i < j => LexLess(TypeChars(nodeTypes[i]), TypeChars(nodeTypes[j]))
        /\ \A i \in DOMAIN nodeTypes :
              getTypeColor(nodeTypes[i]) = colorPalette[((i - 1) % 15) + 1]
        /\ \A k \in DOMAIN Graph.nodes :
              /\ TypeOfNode(k) = "" => getTypeColor(TypeOfNode(k)) = defaultColor
              /\ \A m \in DOMAIN Graph.nodes :
                    TypeOfNode(k) = TypeOfNode(m) =>
                        getTypeColor(TypeOfNode(k)) = getTypeColor(TypeOfNode(m))

\* the snapshot of eighteen labels has arrived for the second request:
\* the sixteenth label has the first color of the palette again, the
\* label in lower case comes last
C30_Witness ==
    /\ graphData = Some(6)
    /\ Len(nodeTypes) = 18
    /\ nodeTypes[1] = "Agent" /\ nodeTypes[16] = "Person" /\ nodeTypes[18] = "agent"
    /\ getTypeColor("Agent") = "#206bc4"
    /\ getTypeColor("Person") = "#206bc4"
    /\ getTypeColor("Place") = "#2fb344"
    /\ getTypeColor("agent") = "#f76707"
    /\ getTypeColor("") = "#667382"
    /\ limit = 250

(* ---------------------------------------------------------------------- *)
(* Drag gestures                                                          *)
(* ---------------------------------------------------------------------- *)

\* a drag gesture is in progress on the node n on display
UnderGesture(n) ==
    \E k \in DOMAIN gestures : gestures[k].subject = n /\ gestures[k].on # "stale"

\* C23: a node on display has a pin exactly while a drag gesture on it is
\* in progress.
C23_PinnedWhileDragged ==
    graphData # None =>
        \A n \in NodeIdsOf(Graph) : (n \in DOMAIN pinned) <=> UnderGesture(n)

(* ---------------------------------------------------------------------- *)
(* C31: with both highlight sets empty nothing is dimmed; otherwise every  *)
(* node, edge and edge label outside its highlight set is dimmed and       *)
(* every member is emphasized, also when no edge is highlighted            *)
(* ---------------------------------------------------------------------- *)

\* the fixed low opacities of a dimmed node, edge and edge label
NodeDimmed(a) == a.opacity = "0.3" /\ a.textOpacity = "0.3"

LinkDimmed(a) == a.strokeOpacity = "0.15"

EdgeLabelDimmed(a) == a.opacity = "0.2"

NodeEmphasized(a) == a.opacity = "1" /\ a.textOpacity = "1" /\ a.strokeWidth = "3"

LinkEmphasized(a) == a.strokeOpacity = "1" /\ a.strokeWidth = "2.5"

C31_OthersDimmed ==
    nodeAttrs # None =>
        LET p      == Val(highlightProps)
            edges  == LayoutEdges(p.graph)
            nodes  == Val(nodeAttrs)
            links  == Val(linkAttrs)
            labels == Val(edgeLabelAttrs)
        IN  IF p.highlightedNodes = {} /\ p.highlightedEdges = {}
            THEN /\ \A n \in DOMAIN nodes : ~NodeDimmed(nodes[n])
                 /\ \A k \in DOMAIN links :
                        ~LinkDimmed(links[k]) /\ ~EdgeLabelDimmed(labels[k])
            ELSE /\ \A n \in DOMAIN nodes :
                        IF n \in p.highlightedNodes
                        THEN NodeEmphasized(nodes[n])
                        ELSE NodeDimmed(nodes[n])
                 /\ \A k \in DOMAIN links :
                        IF edges[k].originalIndex \in p.highlightedEdges
                        THEN LinkEmphasized(links[k]) /\ labels[k].opacity = "1"
                        ELSE LinkDimmed(links[k]) /\ EdgeLabelDimmed(labels[k])

(* ---------------------------------------------------------------------- *)
(* C32: while an edge is selected, an expanded episode is one of the       *)
(* episodes of the selected edge; a foreground fetch started under an      *)
(* edge selected before does not set the expanded episode                  *)
(* ---------------------------------------------------------------------- *)

C32_ExpandedOfSelectedEdge ==
    (selectedEdge # None /\ expandedEpisode # None) =>
        Val(expandedEpisode) \in SeqToSet(Val(selectedEdge).episodes)

(* ---------------------------------------------------------------------- *)
(* C33: with fetches of distinct episode ids in flight, a response only    *)
(* touches the entries of its own id: a successful response puts its       *)
(* episode into the loaded map and keeps every other entry, every          *)
(* response takes its id, and no other, out of the loading set, so the     *)
(* cache is the same for every order of arrival; once nothing is in        *)
(* flight the loading set is empty                                         *)
(* ---------------------------------------------------------------------- *)

DistinctIdsInFlight == \A id \in EpisodeIds : InFlight(id) <= 1

\* the entries of the loaded map other than the one of id
OtherEpisodes(loaded, id) == [k \in (DOMAIN loaded) \ {id} |-> loaded[k]]

C33_CompletionStep ==
    \A id \in EpisodeIds, kind \in Kinds :
        /\ \A episode \in EpisodeResponses(id) :
              EpisodeFetchResponds(id, kind, episode) =>
                  /\ id \in DOMAIN loadedEpisodes'
                  /\ loadedEpisodes'[id] = episode
                  /\ OtherEpisodes(loadedEpisodes', id) = OtherEpisodes(loadedEpisodes, id)
                  /\ loadingEpisodes' = loadingEpisodes \ {id}
        /\ \A how \in {"throws", "unsuccessful"} :
              EpisodeFetchFail(id, kind, how) =>
                  /\ loadedEpisodes' = loadedEpisodes
                  /\ loadingEpisodes' = loadingEpisodes \ {id}

C33_ResponsesCommute ==
    /\ []((\A id \in EpisodeIds : InFlight(id) = 0) => loadingEpisodes = {})
    /\ [][DistinctIdsInFlight => C33_CompletionStep]_vars

\* both ids were in flight at once and both responses have arrived
C33_Witness ==
    /\ DOMAIN loadedEpisodes = {"e1", "e2"}
    /\ \A id \in EpisodeIds : InFlight(id) = 0
    /\ loadingEpisodes = {}

(* ---------------------------------------------------------------------- *)
(* C34: every selection of an edge, by a click on the edge or from a       *)
(* relationship row, also of the edge that is selected already, leaves     *)
(* no episode expanded                                                     *)
(* ---------------------------------------------------------------------- *)

C34_EdgeSelectionCollapses ==
    [][\/ expandedEpisode' = None
       \/ ~(\/ \E i \in DOMAIN processedEdgesRef : LinkClick(i)
            \/ \E k \in DOMAIN processedEdgesRef : NavigateToEdge(k))]_vars

\* an edge is selected, one of its episodes is loaded and none is expanded
C34_Witness ==
    /\ selectedEdge # None
    /\ expandedEpisode = None
    /\ \E id \in SeqToSet(Val(selectedEdge).episodes) : IsLoaded(id)

(* ---------------------------------------------------------------------- *)
(* C35: the expanded episode changes only by a toggle of a loaded          *)
(* episode, by the success of a foreground fetch, which expands the id     *)
(* it has fetched, and by an edge selection, which resets it; a background *)
(* fetch, a failed fetch and the start of a fetch leave it alone           *)
(* ---------------------------------------------------------------------- *)

C36_ExpandedIsLoaded ==
    expandedEpisode # None => IsLoaded(Val(expandedEpisode))

\* an episode fetched on request is expanded while the other id is not loaded
C36_Witness ==
    /\ expandedEpisode = Some("e2")
    /\ DOMAIN loadedEpisodes = {"e2"}

(* ---------------------------------------------------------------------- *)
(* C37: the loading indicator is on while a snapshot fetch is in flight;   *)
(* of two overlapping loads the one that completes first leaves it on      *)
(* ---------------------------------------------------------------------- *)

C37_LoadingWhileInFlight ==
    pendingLoads # <<>> => isLoading = TRUE

(* ---------------------------------------------------------------------- *)
(* C38: two edges between the same two nodes, at different points, have    *)
(* different control points, whether they run in the same direction or in  *)
(* opposite directions                                                     *)
(* ---------------------------------------------------------------------- *)

\* another edge of the pair of d, in the direction of d
ParallelEdge(d, j) == [d EXCEPT !.linkIndex = j]

\* another edge of the pair of d, in the opposite direction
AntiParallelEdge(d, j) ==
    [source |-> d.target, target |-> d.source, linkCount |-> d.linkCount, linkIndex |-> j]

\* the control point of a curved path
ControlPoint(path) == << path[2].args[1], path[2].args[2] >>

C38_ControlPointsDiffer ==
    (DrawnBetweenTwoPoints /\ Val(edgeDatum).linkCount >= 2) =>
        LET d == Val(edgeDatum)
        IN  \A j \in (0..(d.linkCount - 1)) \ {d.linkIndex} :
                /\ ControlPoint(linkPath(ParallelEdge(d, j))) # ControlPoint(Val(pathAttr))
                /\ ControlPoint(linkPath(AntiParallelEdge(d, j))) # ControlPoint(Val(pathAttr))

(* ---------------------------------------------------------------------- *)
(* C39: an edge whose two nodes have positions gets a path that is not     *)
(* empty and starts from the position of its source, and a label anchor    *)
(* taken from the two positions, also when an x coordinate is 0            *)
(* ---------------------------------------------------------------------- *)

\* the anchor of the label of a self-loop and of a single edge
LoopAnchor(d) == [x |-> d.source.x, y |-> Minus(d.source.y, Num(50))]

MidPoint(d) == [x |-> DividedBy(Plus(d.source.x, d.target.x), Num(2)),
                y |-> DividedBy(Plus(d.source.y, d.target.y), Num(2))]

C39_PathFromPositions ==
    Rendered =>
        LET d     == Val(edgeDatum)
            path  == Val(pathAttr)
            label == Val(labelPosition)
        IN  /\ path # <<>>
            /\ path[1].cmd = "M"
            /\ IF d.source.id = d.target.id
               THEN /\ path[1].args = << Minus(d.source.x, Num(10)), Minus(d.source.y, Num(10)) >>
                    /\ label = LoopAnchor(d)
               ELSE /\ path[1].args = << d.source.x, d.source.y >>
                    /\ d.linkCount = 1 => label = MidPoint(d)

====
